---- MODULE Spec2Model ----
(***************************************************************************)
(* Frame pipeline (render/frames.c) and the single-producer,               *)
(* single-consumer queue under it (util/conqueue.c).                       *)
(*                                                                         *)
(* Spec  : the frame pipeline.  One producer thread runs ticks             *)
(*         (frames_start, frames_enqueue_command*, frames_end), one        *)
(*         consumer thread runs frames_draw_latest calls and finally       *)
(*         frames_destroy.  A step is one access to memory both threads    *)
(*         can see (the FIFO link, latest_frame, the allocator) together   *)
(*         with the thread-private code around it.                         *)
(* SpecQ : conqueue_enqueue / conqueue_dequeue at the level of the nodes   *)
(*         and of each atomic load, store and compare-and-swap.            *)
(***************************************************************************)
EXTENDS Integers, Sequences, FiniteSets, TLC

\* ---------------------------------------------------------------- bounds
MaxFrames == 3   \* frames the producer starts in one run
MaxCmds == 1     \* commands the producer enqueues in one run
NumAddr == 3     \* addresses mem_malloc can hand out for frame objects

MaxEnq == 3      \* conqueue_enqueue calls in one run of SpecQ
NumNodes == 3    \* addresses mem_malloc can hand out for node_object
MaxPosts == 2    \* posts of sem_render_after_tick not yet waited for in SpecG
MaxCalls == 2    \* conqueue_dequeue and conqueue_destroy calls of one thread in SpecA

NULL == 0
Addr == 1..NumAddr
FrameId == 1..MaxFrames
NodeAddr == 1..NumNodes
Producers == {"producer"}   \* the threads that call conqueue_enqueue

\* The callback slots of a command (command_funcs): TRUE when the slot holds
\* a function, FALSE when it is NULL.  The three shapes are the ones
\* render.c enqueues plus the full triple.
CommandFuncs ==
    { [update |-> TRUE,  draw |-> TRUE,  destroy |-> TRUE],
      [update |-> TRUE,  draw |-> FALSE, destroy |-> TRUE],
      [update |-> FALSE, draw |-> TRUE,  destroy |-> FALSE] }

\* A free slot of the allocator.
NoFrame == [id |-> 0, commands |-> <<>>, ended |-> FALSE]

VARIABLES
    \* ---- frames_object and the heap of frame_object
    heap,               \* Addr -> frame_object (id = 0: the address is free)
    frame_queues,       \* frames->frame_queues: the FIFO, oldest first
    next_latest_frame,  \* frames->next_latest_frame
    latest_frame,       \* frames->latest_frame
    \* ---- producer thread
    ppc,                \* "idle" | "building" | "publish" | "stopped"
    \* ---- consumer thread
    cpc,                \* "idle" | "dequeue" | "cas" | "free" | "destroyed"
    c_latest,           \* local latest_frame of frames_draw_latest
    c_frame,            \* local frame of the drain loop
    c_ended,            \* local ended of frames_draw_latest
    \* ---- observation (history) variables
    nStarted,           \* frames created by frames_start; a frame's id
    nCmds,              \* commands enqueued by the frames_enqueue_command steps of the run
    sealed,             \* ids of the frames frames_end enqueued, in order
    built,              \* id -> the command_funcs enqueued into the frame
    latestId,           \* id of the frame whose address latest_frame was last given
    midDrain,           \* ids of the frames published while a frames_draw_latest call was running
    log,                \* id -> callbacks and flushes run for the frame, in order
    dequeued,           \* frames the consumer dequeued, in order; latest: it was the call's captured frame
    freed,              \* ids of the frames the consumer freed
    calls,              \* frames_draw_latest calls started (0, 1, or 2 for two and more)
    quiet,              \* no producer step since the last frames_draw_latest call began
    status,             \* what the last finished consumer call returned
    presents,           \* SDL_GL_SwapWindow calls (saturates at MaxFrames + 1)
    failed,             \* some callback has returned false
    c_latestId,         \* id of the frame latest_frame referred to when the call captured it
    \* ---- conqueue_object and its nodes (SpecQ)
    q_node,             \* node address -> node_object (live = FALSE: freed or never allocated)
    q_enqueue,          \* queue->enqueue
    q_dequeue,          \* queue->dequeue
    q_pc,               \* enqueuing thread -> its place in conqueue_enqueue
    q_local,            \* enqueuing thread -> its locals value, node, enqueue, next, enqueue_next
    q_cpc,              \* the consumer's place in conqueue_dequeue
    q_clocal,           \* the consumer's locals dequeue, next
    q_callers,          \* the thread of each conqueue_enqueue call started, in order; call k has value k
    q_accepted,         \* values whose conqueue_enqueue returned true, in return order
    q_out,              \* non-NULL values conqueue_dequeue returned, in order
    q_last,             \* what the consumer's last conqueue_dequeue returned
    \* ---- main thread and render thread of prog.c (SpecH)
    prog,               \* the statics of prog.c, the SDL_GLContext, and each thread's place and locals
    \* ---- the log queue's consumer in log.c (SpecL)
    statics             \* log.c and log_all_output_dequeue (SpecL); the consumer check of conqueue.c (SpecA)

vars == << heap, frame_queues, next_latest_frame, latest_frame, ppc, cpc,
           c_latest, c_frame, c_ended, nStarted, nCmds, sealed, built,
           latestId, log, dequeued, freed, calls, quiet, status,
           presents, failed, midDrain, c_latestId,
           q_node, q_enqueue, q_dequeue, q_pc, q_local, q_cpc, q_clocal,
           q_callers, q_accepted, q_out, q_last, prog, statics >>

qVars == << q_node, q_enqueue, q_dequeue, q_pc, q_local, q_cpc, q_clocal,
            q_callers, q_accepted, q_out, q_last >>

\* conqueue_enqueue calls started; the value of the k-th call is k.
q_calls == Len(q_callers)

\* The fields of prog.
m_pc == prog.m_pc            \* the main thread's place in prog_init, prog_update, prog_deinit
m_value == prog.m_value      \* what SDL_SemValue(render_now_sem) returned to prog_update
r_pc == prog.r_pc            \* the render thread's place in render_thread_func
r_context == prog.r_context  \* local context of render_thread_func
exit_code == prog.exit_code  \* what render_thread_func returns
sems == prog.sems            \* semaphore -> its value
sems_inited_flag == prog.sems_inited_flag
quit_status == prog.quit_status
main_thread_opengl_context == prog.main_thread_opengl_context
render_thread == prog.render_thread  \* NULL, or the handle of the thread not yet joined
render_thread_inited == prog.render_thread_inited
gl_context == prog.gl_context  \* "none" | "alive" | "deleted": the SDL_GLContext
gl_current == prog.gl_current  \* the threads in which the context is current
published == prog.published    \* the main thread has stored the context for the render thread
joined == prog.joined          \* an SDL_WaitThread on the render thread has returned
ctx_ops == prog.ctx_ops        \* the calls made on the context: thread, op, published and joined then
init_posts == prog.init_posts  \* SEM_POST(init_app_sem) calls made so far
sealed_undrawn == prog.sealed_undrawn  \* frames_end has published a frame and no frames_draw_latest call has started since

\* The fields of statics.
lo_pc == statics.lo_pc            \* the place in log_all_output_dequeue
lo_allotted == statics.lo_allotted  \* allotted_time: "finite" | "EMPTY"
lo_expired == statics.lo_expired  \* the allotted time of the running call has passed
lo_text == statics.lo_text        \* local text of the for loop
lo_taken == statics.lo_taken      \* the texts the call got from conqueue_dequeue, in order
lo_written == statics.lo_written  \* the texts the call wrote to the output, in order
lo_ret == statics.lo_ret          \* what the last finished call returned
consumer_set == statics.consumer_set  \* queue->consumer_set: 0, 1 or 2
consumer == statics.consumer      \* queue->consumer: "unset" until it is written
a_pc == statics.a_pc              \* thread -> its place in conqueue_dequeue or conqueue_destroy
a_op == statics.a_op              \* thread -> the function it called last
a_calls == statics.a_calls        \* thread -> the calls it has started
a_destroyed == statics.a_destroyed  \* conqueue_destroy has freed the queue
a_first == statics.a_first        \* the thread whose compare-and-swap of consumer_set came first
a_aborted == statics.a_aborted    \* an assertion has failed: the process is gone
shared_current == statics.shared_current  \* framework/main.c: index of the element shared_current points to, or NullElement
in_use == statics.in_use          \* index -> shared_data[index].in_use
present_sem == statics.present_sem  \* value of the semaphore
fw_quit_now == statics.fw_quit_now  \* quit_now of framework/main.c
fw_pc == statics.fw_pc            \* the main thread's place in main
fw_current == statics.fw_current  \* current of main
fw_i == statics.fw_i              \* i of main
fw_value == statics.fw_value      \* what SDL_SemValue(present_sem) returned to main
fw_exit_code == statics.fw_exit_code  \* exit_code of main
present_pc == statics.present_pc  \* the present thread's place in present
present_current == statics.present_current  \* current of present
present_status == statics.present_status    \* status of present
quit_now == statics.quit_now      \* main/main.c: quit_now
game_sems == statics.game_sems    \* main/main.c: semaphore -> its value
gm_pc == statics.gm_pc            \* the main thread's place in main
gm_exit_code == statics.gm_exit_code  \* exit_code of main
rt_pc == statics.rt_pc            \* the render thread's place in render_thread_function
rt_exit_code == statics.rt_exit_code  \* what render_thread_function returns

frameVars == << heap, frame_queues, next_latest_frame, latest_frame >>
producerObs == << nStarted, nCmds, sealed, built, latestId, midDrain >>
consumerLocals == << c_latest, c_frame, c_ended >>
consumerObs == << log, dequeued, freed, calls, status, presents, failed, c_latestId >>

FreeAddr == { a \in Addr : heap[a].id = 0 }

\* The addresses mem_malloc may return for a new frame_object.  A free
\* address matters only through the pointers that still hold it and are
\* compared later: latest_frame and the consumer's captured copy (the stale
\* next_latest_frame is overwritten by frames_start).  Free addresses that
\* no such pointer holds are interchangeable, so of those the least stands
\* for all of them; each free address still held is a choice of its own.
mem_malloc ==
    LET held == FreeAddr \cap {latest_frame, c_latest}
        fresh == FreeAddr \ held
    IN held \cup { a \in fresh : \A b \in fresh : a <= b }

\* ------------------------------------------------------------ frames_create
FramesInit ==
    /\ heap = [a \in Addr |-> NoFrame]
    /\ frame_queues = <<>>
    /\ next_latest_frame = NULL
    /\ latest_frame = NULL
    /\ ppc = "idle"
    /\ cpc = "idle"
    /\ c_latest = NULL
    /\ c_frame = NULL
    /\ c_ended = FALSE
    /\ nStarted = 0
    /\ nCmds = 0
    /\ sealed = <<>>
    /\ built = [f \in FrameId |-> <<>>]
    /\ latestId = 0
    /\ log = [f \in FrameId |-> <<>>]
    /\ dequeued = <<>>
    /\ freed = {}
    /\ calls = 0
    /\ quiet = FALSE
    /\ status = "NONE"
    /\ presents = 0
    /\ failed = FALSE
    /\ midDrain = {}
    /\ c_latestId = 0

\* ---------------------------------------------------------- conqueue_create
\* One sentinel node, value NULL and next NULL; enqueue and dequeue both
\* point to it.
NoNode == [value |-> NULL, next |-> NULL, live |-> FALSE]

NoLocals == [value |-> NULL, node |-> NULL, enqueue |-> NULL, next |-> NULL,
             enqueue_next |-> "unset"]

conqueue_create ==
    /\ q_node = [n \in NodeAddr |->
                   IF n = 1 THEN [value |-> NULL, next |-> NULL, live |-> TRUE]
                            ELSE NoNode]
    /\ q_enqueue = 1
    /\ q_dequeue = 1
    /\ q_pc = [t \in Producers |-> "idle"]
    /\ q_local = [t \in Producers |-> NoLocals]
    /\ q_cpc = "idle"
    /\ q_clocal = [dequeue |-> NULL, next |-> NULL]
    /\ q_callers = <<>>
    /\ q_accepted = <<>>
    /\ q_out = <<>>
    /\ q_last = "none"

\* ------------------------------------------- the statics of prog.c at start
Sems == {"log_filename_sem", "render_start_sem", "init_app_sem",
         "deinit_render_sem", "render_now_sem"}

\* The one context opengl_context_create can return.
CONTEXT == 1

ProgInit ==
    prog = [m_pc |-> "sems_init",
            m_value |-> 0,
            r_pc |-> "not_created",
            r_context |-> NULL,
            exit_code |-> "EXIT_SUCCESS",
            sems |-> [s \in Sems |-> 0],
            sems_inited_flag |-> FALSE,
            quit_status |-> "QUIT_NOT",
            main_thread_opengl_context |-> NULL,
            render_thread |-> NULL,
            render_thread_inited |-> FALSE,
            gl_context |-> "none",
            gl_current |-> {},
            published |-> FALSE,
            joined |-> FALSE,
            ctx_ops |-> {},
            init_posts |-> 0,
            sealed_undrawn |-> FALSE]

\* log_init has run: all_output_queue is the queue, nothing dequeued or
\* written yet, no call of log_all_output_dequeue running.
LogStatics ==
    [lo_pc |-> "idle",
     lo_allotted |-> "finite",
     lo_expired |-> FALSE,
     lo_text |-> NULL,
     lo_taken |-> <<>>,
     lo_written |-> <<>>,
     lo_ret |-> "none"]

\* The threads that call conqueue_dequeue or conqueue_destroy in SpecA.
ConsumerThreads == {"t1", "t2"}

\* conqueue_create in a debug build: consumer_set is 0, consumer is not
\* written; no thread is inside a call.
ConsumerStatics ==
    [consumer_set |-> 0,
     consumer |-> "unset",
     a_pc |-> [t \in ConsumerThreads |-> "idle"],
     a_op |-> [t \in ConsumerThreads |-> "none"],
     a_calls |-> [t \in ConsumerThreads |-> 0],
     a_first |-> "none",
     a_aborted |-> FALSE,
     a_destroyed |-> FALSE]

\* shared_data has three elements; a pointer to one is its index, NULL is
\* NullElement.
lengthof_shared_data == 3
NullElement == -1
SharedIndex == 0 .. (lengthof_shared_data - 1)

\* main of framework/main.c after SDL_CreateThread has returned the present
\* thread: in_use is 0 everywhere, present_sem is 0, shared_current is NULL.
PresentStatics ==
    [shared_current |-> NullElement,
     in_use |-> [e \in SharedIndex |-> 0],
     present_sem |-> 0,
     fw_quit_now |-> 0,
     fw_pc |-> "game_init",
     fw_current |-> NullElement,
     fw_i |-> 0,
     fw_value |-> 0,
     fw_exit_code |-> "EXIT_SUCCESS",
     present_pc |-> "start",
     present_current |-> NullElement,
     present_status |-> 1]

GameSems == {"sem_render_start", "sem_init_game", "sem_deinit_render",
             "sem_render_after_tick"}

\* main of main/main.c after the four semaphores and the context have been
\* created and the context stored: the next statement is
\* SEM_POST(sem_render_start).
GameStatics ==
    [quit_now |-> 0,
     game_sems |-> [m \in GameSems |-> 0],
     gm_pc |-> "post_render_start",
     gm_exit_code |-> "EXIT_SUCCESS",
     rt_pc |-> "not_created",
     rt_exit_code |-> "EXIT_SUCCESS"]

StaticsInit ==
    statics = LogStatics @@ ConsumerStatics @@ PresentStatics @@ GameStatics

Init == FramesInit /\ conqueue_create /\ ProgInit /\ StaticsInit

\* ===================================================== producer thread ====

\* mem_malloc(sizeof(frame_object)) and queue_create() of frames_start: the
\* allocator returns any free address, or fails.
frames_start_ok(a) ==
    /\ UNCHANGED << qVars, prog, statics >>
    /\ ppc = "idle"
    /\ nStarted < MaxFrames
    /\ a \in mem_malloc
    /\ heap' = [heap EXCEPT ![a] =
                   [id |-> nStarted + 1, commands |-> <<>>, ended |-> FALSE]]
    /\ next_latest_frame' = a
    /\ nStarted' = nStarted + 1
    /\ ppc' = "building"
    /\ UNCHANGED << frame_queues, latest_frame, nCmds, sealed, built, latestId, midDrain >>
    /\ quiet' = FALSE
    /\ UNCHANGED << cpc, consumerLocals, consumerObs >>

\* frames_start returning FRAMES_STATUS_ERROR: nothing was created.  The
\* caller treats the failure as fatal and produces no further tick.
frames_start_fail ==
    /\ UNCHANGED << qVars, prog, statics >>
    /\ ppc = "idle"
    /\ nStarted < MaxFrames
    /\ ppc' = "stopped"
    /\ quiet' = FALSE
    /\ UNCHANGED << frameVars, producerObs, cpc, consumerLocals, consumerObs >>

\* queue_enqueue(commands, command) on the frame's private command list.
frames_enqueue_command_ok(funcs) ==
    /\ UNCHANGED << qVars, prog, statics >>
    /\ ppc = "building"
    /\ nCmds < MaxCmds
    /\ LET f == heap[next_latest_frame]
           command == [funcs |-> funcs, cid |-> Len(built[f.id]) + 1]
       IN /\ heap' = [heap EXCEPT ![next_latest_frame].commands =
                         Append(f.commands, command)]
          /\ built' = [built EXCEPT ![f.id] = Append(@, funcs)]
    /\ nCmds' = nCmds + 1
    /\ UNCHANGED << frame_queues, next_latest_frame, latest_frame, ppc,
                    nStarted, sealed, latestId, midDrain >>
    /\ quiet' = FALSE
    /\ UNCHANGED << cpc, consumerLocals, consumerObs >>

\* frames_enqueue_command returning false (command or node allocation
\* failed): the frame in progress is left as it is, never sealed.
frames_enqueue_command_fail ==
    /\ UNCHANGED << qVars, prog, statics >>
    /\ ppc = "building"
    /\ nCmds < MaxCmds
    /\ ppc' = "stopped"
    /\ quiet' = FALSE
    /\ UNCHANGED << frameVars, producerObs, cpc, consumerLocals, consumerObs >>

\* The value placed at the front of the queue instead of the back.
conqueue_push_front(queue, value) == << value >> \o queue

\* The effect of a successful conqueue_enqueue on the queue's contents, the
\* sequence of values from the node after the sentinel to the tail (SpecQ
\* has the same function node by node).
conqueue_enqueue(queue, value) == Append(queue, value)

\* frames_end up to and including conqueue_enqueue: ended is set, then the
\* frame is linked into the FIFO (the compare-and-swap on the tail's next is
\* the moment the consumer can dequeue it).
frames_end_enqueue ==
    /\ UNCHANGED << qVars, prog, statics >>
    /\ ppc = "building"
    /\ heap' = [heap EXCEPT ![next_latest_frame].ended = TRUE]
    /\ frame_queues' = conqueue_enqueue(frame_queues, next_latest_frame)
    /\ sealed' = Append(sealed, heap[next_latest_frame].id)
    /\ ppc' = "publish"
    /\ UNCHANGED << next_latest_frame, latest_frame, nStarted, nCmds, built, latestId, midDrain >>
    /\ quiet' = FALSE
    /\ UNCHANGED << cpc, consumerLocals, consumerObs >>

\* frames_end storing the frame into latest_frame although conqueue_enqueue
\* returned false and the frame is freed.
frames_end_fail_published ==
    /\ UNCHANGED << qVars, prog, statics >>
    /\ ppc = "building"
    /\ heap' = [heap EXCEPT ![next_latest_frame] = NoFrame]
    /\ latest_frame' = next_latest_frame
    /\ latestId' = heap[next_latest_frame].id
    /\ ppc' = "stopped"
    /\ UNCHANGED << frame_queues, next_latest_frame, nStarted, nCmds, sealed,
                    built, midDrain >>
    /\ quiet' = FALSE
    /\ UNCHANGED << cpc, consumerLocals, consumerObs >>

\* frames_end when conqueue_enqueue returns false: the frame's command list
\* and the frame are freed (no callback is run), frames_end returns false.
frames_end_fail ==
    /\ UNCHANGED << qVars, prog, statics >>
    /\ ppc = "building"
    /\ heap' = [heap EXCEPT ![next_latest_frame] = NoFrame]
    /\ ppc' = "stopped"
    /\ UNCHANGED << frame_queues, next_latest_frame, latest_frame, producerObs >>
    /\ quiet' = FALSE
    /\ UNCHANGED << cpc, consumerLocals, consumerObs >>

\* The rest of frames_end: the release store of the frame into latest_frame.
frames_end_publish ==
    /\ UNCHANGED << qVars, prog, statics >>
    /\ ppc = "publish"
    /\ latest_frame' = next_latest_frame
    /\ latestId' = sealed[Len(sealed)]
    /\ midDrain' = IF cpc \in {"dequeue", "cas", "free"}
                   THEN midDrain \cup {sealed[Len(sealed)]} ELSE midDrain
    /\ ppc' = "idle"
    /\ UNCHANGED << heap, frame_queues, next_latest_frame, nStarted, nCmds, sealed, built >>
    /\ quiet' = FALSE
    /\ UNCHANGED << cpc, consumerLocals, consumerObs >>

\* The producer's loop ends between two ticks (a quit request).
producer_quit ==
    /\ UNCHANGED << qVars, prog, statics >>
    /\ ppc = "idle"
    /\ ppc' = "stopped"
    /\ quiet' = FALSE
    /\ UNCHANGED << frameVars, producerObs, cpc, consumerLocals, consumerObs >>

\* ===================================================== consumer thread ====

NoFail == << 0, "none" >>

\* The callback a call may see fail: none, or the update or the draw of one
\* command of the frame.
FailChoices(commands) ==
    {NoFail} \cup { << commands[i].cid, k >> :
                       i \in 1..Len(commands), k \in {"update", "draw"} }

\* The command loop running the destroy callback of the command whose
\* update or draw failed before it returns.
RECURSIVE DrawCommands_destroy_on_failure(_, _, _, _)
DrawCommands_destroy_on_failure(commands, drawing, fail, ran) ==
    IF commands = <<>>
    THEN [ran |-> ran, rest |-> <<>>, ok |-> TRUE]
    ELSE LET command == Head(commands)
             updated == IF command.funcs.update
                        THEN Append(ran, << command.cid, "update" >>) ELSE ran
             drawn == IF drawing /\ command.funcs.draw
                      THEN Append(updated, << command.cid, "draw" >>) ELSE updated
             destroyed == IF command.funcs.destroy
                          THEN Append(drawn, << command.cid, "destroy" >>) ELSE drawn
             cleaned == IF command.funcs.destroy
                        THEN Append(updated, << command.cid, "destroy" >>) ELSE updated
         IN IF command.funcs.update /\ fail = << command.cid, "update" >>
            THEN [ran |-> cleaned, rest |-> Tail(commands), ok |-> FALSE]
            ELSE IF drawing /\ command.funcs.draw /\ fail = << command.cid, "draw" >>
            THEN [ran |-> destroyed, rest |-> Tail(commands), ok |-> FALSE]
            ELSE DrawCommands_destroy_on_failure(Tail(commands), drawing, fail, destroyed)

\* The command loop with the draw callback invoked before update.
RECURSIVE DrawCommands_draw_first(_, _, _, _)
DrawCommands_draw_first(commands, drawing, fail, ran) ==
    IF commands = <<>>
    THEN [ran |-> ran, rest |-> <<>>, ok |-> TRUE]
    ELSE LET command == Head(commands)
             drawn == IF drawing /\ command.funcs.draw
                      THEN Append(ran, << command.cid, "draw" >>) ELSE ran
             updated == IF command.funcs.update
                        THEN Append(drawn, << command.cid, "update" >>) ELSE drawn
             destroyed == IF command.funcs.destroy
                          THEN Append(updated, << command.cid, "destroy" >>) ELSE updated
         IN IF fail \in { << command.cid, "update" >>, << command.cid, "draw" >> }
            THEN [ran |-> updated, rest |-> Tail(commands), ok |-> FALSE]
            ELSE DrawCommands_draw_first(Tail(commands), drawing, fail, destroyed)

\* The command loop of frames_draw_latest over one frame: queue_dequeue one
\* command after the other; update, then draw when the frame is the captured
\* one, then destroy.  fail names the callback that returns false (if it is
\* run at all).  Result: the callbacks run, the commands still in the
\* frame's list, and whether the loop ran to its end (ok) or returned
\* FRAMES_STATUS_ERROR.
RECURSIVE DrawCommands(_, _, _, _)
DrawCommands(commands, draw_now, fail, ran) ==
    IF commands = <<>>
    THEN [ran |-> ran, rest |-> <<>>, ok |-> TRUE]
    ELSE LET command == Head(commands)
             rest == Tail(commands)
             updated == IF command.funcs.update
                        THEN Append(ran, << command.cid, "update" >>) ELSE ran
             drawn == IF draw_now /\ command.funcs.draw
                      THEN Append(updated, << command.cid, "draw" >>) ELSE updated
             destroyed == IF command.funcs.destroy
                          THEN Append(drawn, << command.cid, "destroy" >>) ELSE drawn
         IN IF command.funcs.update /\ fail = << command.cid, "update" >>
            THEN [ran |-> updated, rest |-> rest, ok |-> FALSE]
            ELSE IF draw_now /\ command.funcs.draw /\ fail = << command.cid, "draw" >>
            THEN [ran |-> drawn, rest |-> rest, ok |-> FALSE]
            ELSE DrawCommands(rest, draw_now, fail, destroyed)

\* Every dequeued frame treated as the one to draw.
draw_now_always(frame, captured) == TRUE

\* const bool draw_now = frame == latest_frame, with latest_frame the
\* pointer captured at entry.
draw_now(frame, captured) == frame = captured

\* The entry of frames_draw_latest without the test for NULL: the drain
\* loop is entered whatever latest_frame holds.
draw_latest_load_untested ==
    /\ UNCHANGED << qVars, prog, statics >>
    /\ cpc = "idle"
    /\ calls' = IF calls = 0 THEN 1 ELSE 2
    /\ quiet' = TRUE
    /\ c_latest' = latest_frame
    /\ c_latestId' = IF latest_frame = NULL THEN 0 ELSE latestId
    /\ c_ended' = FALSE
    /\ status' = "RUNNING"
    /\ cpc' = "dequeue"
    /\ UNCHANGED << frameVars, ppc, producerObs, c_frame >>
    /\ UNCHANGED << log, dequeued, freed, presents, failed >>

\* frames_draw_latest, entry: the acquire load of latest_frame.
draw_latest_load ==
    /\ UNCHANGED << qVars, prog, statics >>
    /\ cpc = "idle"
    /\ calls' = IF calls = 0 THEN 1 ELSE 2
    /\ quiet' = TRUE
    /\ c_latest' = latest_frame
    /\ c_latestId' = IF latest_frame = NULL THEN 0 ELSE latestId
    /\ c_ended' = FALSE
    /\ IF latest_frame = NULL
       THEN /\ status' = "NO_FRAMES"
            /\ cpc' = "idle"
       ELSE /\ status' = "RUNNING"
            /\ cpc' = "dequeue"
    /\ UNCHANGED << frameVars, ppc, producerObs, c_frame >>
    /\ UNCHANGED << log, dequeued, freed, presents, failed >>

\* The drain loop waiting for a frame when conqueue_dequeue returns NULL.
draw_latest_return_waits ==
    /\ cpc = "dequeue"
    /\ frame_queues = <<>>
    /\ UNCHANGED vars

\* conqueue_dequeue returns NULL: the loop ends; present when the captured
\* frame was reached and had ended.
draw_latest_return ==
    /\ UNCHANGED << qVars, prog, statics >>
    /\ cpc = "dequeue"
    /\ frame_queues = <<>>
    /\ IF c_ended
       THEN /\ presents' = IF presents > MaxFrames THEN presents ELSE presents + 1
            /\ status' = "SUCCESS"
       ELSE /\ presents' = presents
            /\ status' = "NO_END"
    /\ cpc' = "idle"
    /\ UNCHANGED << frameVars, ppc, producerObs, consumerLocals >>
    /\ UNCHANGED << log, dequeued, freed, calls, quiet, failed, c_latestId >>

\* One pass of the drain loop up to its next access to shared memory:
\* conqueue_dequeue finds a frame, the command loop runs over it, and a frame
\* that is not the captured one is followed by glFlush.  A failing callback
\* returns FRAMES_STATUS_ERROR out of the call: the frame, already out of the
\* FIFO, and the commands left in it stay allocated and are referenced no
\* more.
draw_latest_frame(fail) ==
    /\ UNCHANGED << qVars, prog, statics >>
    /\ cpc = "dequeue"
    /\ frame_queues # <<>>
    /\ LET a == Head(frame_queues)
           frame == heap[a]
           drawing == draw_now(a, c_latest)
           r == DrawCommands(frame.commands, drawing, fail, <<>>)
       IN /\ (fail # NoFail => ~r.ok)
          /\ frame_queues' = Tail(frame_queues)
          /\ dequeued' = Append(dequeued,
                            [id |-> frame.id, latest |-> (a = c_latest),
                             by |-> "frames_draw_latest", ok |-> r.ok])
          /\ heap' = [heap EXCEPT ![a].commands = r.rest]
          /\ IF ~r.ok
             THEN /\ log' = [log EXCEPT ![frame.id] = @ \o r.ran]
                  /\ cpc' = "idle"
                  /\ status' = "ERROR"
                  /\ failed' = TRUE
                  /\ c_frame' = NULL
             ELSE /\ log' = [log EXCEPT ![frame.id] =
                                IF a # c_latest
                                THEN Append(@ \o r.ran, << 0, "flush" >>)
                                ELSE @ \o r.ran]
                  /\ cpc' = IF a # c_latest THEN "free" ELSE "cas"
                  /\ c_frame' = a
                  /\ UNCHANGED << status, failed >>
    /\ UNCHANGED << next_latest_frame, latest_frame, ppc, producerObs >>
    /\ UNCHANGED << c_latest, c_ended, freed, calls, quiet, presents, c_latestId >>

\* The step after the captured frame's command loop with the
\* compare-and-swap left out.
draw_latest_cas_skipped ==
    /\ cpc = "cas"
    /\ c_ended' = heap[c_frame].ended
    /\ cpc' = "free"
    /\ UNCHANGED << qVars, prog, statics >>
    /\ UNCHANGED << heap, frame_queues, next_latest_frame, latest_frame, ppc,
                    producerObs >>
    /\ UNCHANGED << c_latest, c_frame, log, dequeued, freed, calls, quiet,
                    status, presents, failed, c_latestId >>

\* For the captured frame, after its command loop: the compare-and-swap of
\* latest_frame to NULL and the read of frame->ended.
draw_latest_cas ==
    /\ UNCHANGED << qVars, prog, statics >>
    /\ cpc = "cas"
    /\ latest_frame' = IF latest_frame = c_latest THEN NULL ELSE latest_frame
    /\ c_ended' = heap[c_frame].ended
    /\ cpc' = "free"
    /\ UNCHANGED << heap, frame_queues, next_latest_frame, ppc, producerObs >>
    /\ UNCHANGED << c_latest, c_frame, log, dequeued, freed, calls, quiet,
                    status, presents, failed, c_latestId >>

\* The loop's increment: queue_destroy(frame->commands), mem_free(frame).
draw_latest_free ==
    /\ UNCHANGED << qVars, prog, statics >>
    /\ cpc = "free"
    /\ heap' = [heap EXCEPT ![c_frame] = NoFrame]
    /\ freed' = freed \cup {heap[c_frame].id}
    /\ c_frame' = NULL
    /\ cpc' = "dequeue"
    /\ UNCHANGED << frame_queues, next_latest_frame, latest_frame, ppc, producerObs >>
    /\ UNCHANGED << c_latest, c_ended, log, dequeued, calls, quiet,
                    status, presents, failed, c_latestId >>

\* The command loop of frames_destroy with destroy run before update.
RECURSIVE DestroyCommands_destroy_first(_, _, _)
DestroyCommands_destroy_first(commands, fail, ran) ==
    IF commands = <<>>
    THEN [ran |-> ran, rest |-> <<>>, ok |-> TRUE]
    ELSE LET command == Head(commands)
             destroyed == IF command.funcs.destroy
                          THEN Append(ran, << command.cid, "destroy" >>) ELSE ran
             updated == IF command.funcs.update
                        THEN Append(destroyed, << command.cid, "update" >>)
                        ELSE destroyed
         IN IF command.funcs.update /\ fail = << command.cid, "update" >>
            THEN [ran |-> updated, rest |-> Tail(commands), ok |-> FALSE]
            ELSE DestroyCommands_destroy_first(Tail(commands), fail, updated)

\* The command loop of frames_destroy over one frame: update, then destroy;
\* a failing update returns false out of frames_destroy.
RECURSIVE DestroyCommands(_, _, _)
DestroyCommands(commands, fail, ran) ==
    IF commands = <<>>
    THEN [ran |-> ran, rest |-> <<>>, ok |-> TRUE]
    ELSE LET command == Head(commands)
             rest == Tail(commands)
             updated == IF command.funcs.update
                        THEN Append(ran, << command.cid, "update" >>) ELSE ran
             destroyed == IF command.funcs.destroy
                          THEN Append(updated, << command.cid, "destroy" >>) ELSE updated
         IN IF command.funcs.update /\ fail = << command.cid, "update" >>
            THEN [ran |-> updated, rest |-> rest, ok |-> FALSE]
            ELSE DestroyCommands(rest, fail, destroyed)

\* The frame loop of frames_destroy on the pipeline state p (the FIFO, the
\* heap and the observation variables): dequeue, run the command loop,
\* glFlush, free, until the FIFO is empty.  failAt = << frame id, callback >>
\* names the update that returns false.
RECURSIVE DestroyFrames(_, _)
DestroyFrames(p, failAt) ==
    IF p.queue = <<>>
    THEN [p EXCEPT !.ok = TRUE]
    ELSE LET a == Head(p.queue)
             frame == p.heap[a]
             fail == IF failAt[1] = frame.id THEN failAt[2] ELSE NoFail
             r == DestroyCommands(frame.commands, fail, <<>>)
             taken == [p EXCEPT
                         !.queue = Tail(p.queue),
                         !.dequeued = Append(@, [id |-> frame.id, latest |-> FALSE,
                                                 by |-> "frames_destroy",
                                                 ok |-> r.ok])]
         IN IF ~r.ok
            THEN [taken EXCEPT
                    !.heap = [@ EXCEPT ![a].commands = r.rest],
                    !.log = [@ EXCEPT ![frame.id] = @ \o r.ran],
                    !.ok = FALSE]
            ELSE DestroyFrames(
                   [taken EXCEPT
                      !.heap = [@ EXCEPT ![a] = NoFrame],
                      !.log = [@ EXCEPT ![frame.id] =
                                  Append(@ \o r.ran, << 0, "flush" >>)],
                      !.freed = @ \cup {frame.id}],
                   failAt)

\* The updates frames_destroy may see fail: none, or the update of one
\* command of one queued frame.
DestroyFailChoices ==
    { << 0, NoFail >> } \cup
    UNION { { << heap[frame_queues[i]].id,
                 << heap[frame_queues[i]].commands[j].cid, "update" >> >> :
                 j \in 1..Len(heap[frame_queues[i]].commands) } :
            i \in 1..Len(frame_queues) }

\* frames_destroy, called by the consumer thread once the producer has
\* stopped.  Returning true it has also run conqueue_destroy and freed the
\* frames object; returning false (an update failed) it has not.
frames_destroy(failAt) ==
    /\ UNCHANGED << qVars, prog, statics >>
    /\ cpc = "idle"
    /\ ppc = "stopped"
    /\ LET p == [queue |-> frame_queues, heap |-> heap, log |-> log,
                 dequeued |-> dequeued, freed |-> freed, ok |-> TRUE]
           r == DestroyFrames(p, failAt)
       IN /\ (failAt[1] # 0 => ~r.ok)
          /\ frame_queues' = r.queue
          /\ heap' = r.heap
          /\ log' = r.log
          /\ dequeued' = r.dequeued
          /\ freed' = r.freed
          /\ failed' = (failed \/ ~r.ok)
          /\ status' = IF r.ok THEN "DESTROYED" ELSE "DESTROY_ERROR"
          /\ cpc' = IF r.ok THEN "destroyed" ELSE "idle"
    /\ UNCHANGED << next_latest_frame, latest_frame, ppc, producerObs >>
    /\ UNCHANGED << consumerLocals, calls, quiet, presents, c_latestId >>

\* ============================================================ the system ==

Next ==
    \/ \E a \in Addr : frames_start_ok(a)
    \/ frames_start_fail
    \/ \E funcs \in CommandFuncs : frames_enqueue_command_ok(funcs)
    \/ frames_enqueue_command_fail
    \/ frames_end_enqueue
    \/ frames_end_fail
    \/ frames_end_publish
    \/ producer_quit
    \/ draw_latest_load
    \/ draw_latest_return
    \/ (frame_queues # <<>> /\
          \E fail \in FailChoices(heap[Head(frame_queues)].commands) :
             draw_latest_frame(fail))
    \/ draw_latest_cas
    \/ draw_latest_free
    \/ \E failAt \in DestroyFailChoices : frames_destroy(failAt)

Spec == Init /\ [][Next]_vars

\* ============================ the consumer thread scheduled (SpecFair) =====

\* A step of a frames_draw_latest call that has passed its entry.
drain_step ==
    \/ draw_latest_return
    \/ (frame_queues # <<>> /\
          \E fail \in FailChoices(heap[Head(frame_queues)].commands) :
              draw_latest_frame(fail))
    \/ draw_latest_cas
    \/ draw_latest_free

\* The two threads without allocation failures and without the final
\* frames_destroy, every command having all three callbacks: the producer's
\* ticks seal frames while the consumer's frames_draw_latest calls drain
\* them, callbacks succeeding or failing.
NextFair ==
    \/ \E a \in Addr : frames_start_ok(a)
    \/ frames_enqueue_command_ok([update |-> TRUE, draw |-> TRUE, destroy |-> TRUE])
    \/ frames_end_enqueue
    \/ frames_end_publish
    \/ producer_quit
    \/ draw_latest_load
    \/ drain_step

\* frames_draw_latest has no wait in it: the thread that is inside a call
\* goes on taking the call's steps.
SpecFair == Init /\ [][NextFair]_vars /\ WF_vars(drain_step)

\* ============================== the pipeline with a backlog (SpecE) =======

\* The pipeline after two complete ticks of the producer, each with two
\* commands, after which the producer has quit, and no consumer call yet:
\* both frames are ended and in the FIFO, latest_frame is the second.  c1,
\* c2 and c3, c4 are the command_funcs the ticks passed to
\* frames_enqueue_command.
TwoTicks(c1, c2, c3, c4) ==
    /\ heap = [a \in Addr |->
                 IF a = 1
                 THEN [id |-> 1, ended |-> TRUE,
                       commands |-> << [funcs |-> c1, cid |-> 1],
                                       [funcs |-> c2, cid |-> 2] >>]
                 ELSE IF a = 2
                 THEN [id |-> 2, ended |-> TRUE,
                       commands |-> << [funcs |-> c3, cid |-> 1],
                                       [funcs |-> c4, cid |-> 2] >>]
                 ELSE NoFrame]
    /\ frame_queues = << 1, 2 >>
    /\ next_latest_frame = 2
    /\ latest_frame = 2
    /\ ppc = "stopped"
    /\ cpc = "idle"
    /\ c_latest = NULL
    /\ c_frame = NULL
    /\ c_ended = FALSE
    /\ nStarted = 2
    /\ nCmds = 0
    /\ sealed = << 1, 2 >>
    /\ built = [f \in FrameId |->
                  IF f = 1 THEN << c1, c2 >> ELSE IF f = 2 THEN << c3, c4 >> ELSE <<>>]
    /\ latestId = 2
    /\ log = [f \in FrameId |-> <<>>]
    /\ dequeued = <<>>
    /\ freed = {}
    /\ calls = 0
    /\ quiet = FALSE
    /\ status = "NONE"
    /\ presents = 0
    /\ failed = FALSE
    /\ midDrain = {}
    /\ c_latestId = 0

InitE ==
    /\ \E c1, c2, c3, c4 \in CommandFuncs : TwoTicks(c1, c2, c3, c4)
    /\ conqueue_create
    /\ ProgInit
    /\ StaticsInit

\* The consumer thread alone: frames_draw_latest calls, then frames_destroy.
NextE ==
    \/ draw_latest_load
    \/ draw_latest_return
    \/ (frame_queues # <<>> /\
          \E fail \in FailChoices(heap[Head(frame_queues)].commands) :
              draw_latest_frame(fail))
    \/ draw_latest_cas
    \/ draw_latest_free
    \/ \E failAt \in DestroyFailChoices : frames_destroy(failAt)

SpecE == InitE /\ [][NextE]_vars

\* ====================================== conqueue, node by node (SpecQ) ====

pipelineVars == << frameVars, ppc, cpc, consumerLocals, producerObs,
                   consumerObs, quiet >>

FreeNodes == { n \in NodeAddr : ~q_node[n].live }

\* conqueue_enqueue, entry: mem_malloc of the node succeeds; value and next
\* of the new node are written.  The value of the k-th call is k.
enqueue_alloc(t, n) ==
    /\ q_pc[t] = "idle"
    /\ q_calls < MaxEnq
    /\ n \in FreeNodes
    /\ q_callers' = Append(q_callers, t)
    /\ q_node' = [q_node EXCEPT ![n] =
                     [value |-> q_calls + 1, next |-> NULL, live |-> TRUE]]
    /\ q_local' = [q_local EXCEPT ![t] =
                      [NoLocals EXCEPT !.value = q_calls + 1, !.node = n]]
    /\ q_pc' = [q_pc EXCEPT ![t] = "load_tail"]
    /\ UNCHANGED << q_enqueue, q_dequeue, q_cpc, q_clocal, q_accepted, q_out, q_last >>
    /\ UNCHANGED << pipelineVars, prog, statics >>

\* The variant of conqueue_enqueue that returns false after it has written
\* the value into a node and linked the node behind the tail.
enqueue_fail_after_link(t) ==
    /\ q_pc[t] = "idle"
    /\ q_calls < MaxEnq
    /\ q_callers' = Append(q_callers, t)
    /\ IF FreeNodes # {} /\ q_node[q_enqueue].next = NULL
       THEN LET n == CHOOSE f \in FreeNodes : TRUE
            IN q_node' = [q_node EXCEPT
                            ![n] = [value |-> q_calls + 1, next |-> NULL,
                                    live |-> TRUE],
                            ![q_enqueue].next = n]
       ELSE UNCHANGED q_node
    /\ UNCHANGED << q_enqueue, q_dequeue, q_pc, q_local, q_cpc,
                    q_clocal, q_accepted, q_out, q_last >>
    /\ UNCHANGED << pipelineVars, prog, statics >>

\* conqueue_enqueue when mem_malloc returns NULL: return false.
enqueue_alloc_fail(t) ==
    /\ q_pc[t] = "idle"
    /\ q_calls < MaxEnq
    /\ q_callers' = Append(q_callers, t)
    /\ UNCHANGED << q_node, q_enqueue, q_dequeue, q_pc, q_local, q_cpc,
                    q_clocal, q_accepted, q_out, q_last >>
    /\ UNCHANGED << pipelineVars, prog, statics >>

\* The loop of conqueue_enqueue starting from queue->dequeue, the head,
\* instead of queue->enqueue.
enqueue_load_head(t) ==
    /\ q_pc[t] = "load_tail"
    /\ q_local' = [q_local EXCEPT ![t].enqueue = q_dequeue]
    /\ q_pc' = [q_pc EXCEPT ![t] = "load_next"]
    /\ UNCHANGED << q_node, q_enqueue, q_dequeue, q_cpc, q_clocal, q_callers,
                    q_accepted, q_out, q_last >>
    /\ UNCHANGED << pipelineVars, prog, statics >>

\* enqueue = SDL_AtomicGetPtr(&queue->enqueue)
enqueue_load_tail(t) ==
    /\ q_pc[t] = "load_tail"
    /\ q_local' = [q_local EXCEPT ![t].enqueue = q_enqueue]
    /\ q_pc' = [q_pc EXCEPT ![t] = "load_next"]
    /\ UNCHANGED << q_node, q_enqueue, q_dequeue, q_cpc, q_clocal, q_callers,
                    q_accepted, q_out, q_last >>
    /\ UNCHANGED << pipelineVars, prog, statics >>

\* next = SDL_AtomicGetPtr(&enqueue->next).  With next != NULL, continue
\* jumps to the test of the do-while, !enqueue_next: false after a failed
\* compare-and-swap, and not yet assigned in the first pass, where the test
\* can go either way.
enqueue_load_next(t) ==
    /\ q_pc[t] = "load_next"
    /\ LET next == q_node[q_local[t].enqueue].next
       IN /\ q_local' = [q_local EXCEPT ![t].next = next]
          /\ \E again \in (IF next # NULL /\ q_local[t].enqueue_next = "unset"
                           THEN {TRUE, FALSE} ELSE {TRUE}) :
                q_pc' = [q_pc EXCEPT ![t] =
                            IF next = NULL THEN "cas_next"
                            ELSE IF again THEN "load_tail" ELSE "cas_tail"]
    /\ UNCHANGED << q_node, q_enqueue, q_dequeue, q_cpc, q_clocal, q_callers,
                    q_accepted, q_out, q_last >>
    /\ UNCHANGED << pipelineVars, prog, statics >>

\* enqueue_next = SDL_AtomicCASPtr(&enqueue->next, next, node): the link.
enqueue_cas_next(t) ==
    /\ q_pc[t] = "cas_next"
    /\ LET l == q_local[t]
       IN IF q_node[l.enqueue].next = l.next
          THEN /\ q_node' = [q_node EXCEPT ![l.enqueue].next = l.node]
               /\ q_local' = [q_local EXCEPT ![t].enqueue_next = "true"]
               /\ q_pc' = [q_pc EXCEPT ![t] = "cas_tail"]
          ELSE /\ q_local' = [q_local EXCEPT ![t].enqueue_next = "false"]
               /\ q_pc' = [q_pc EXCEPT ![t] = "load_tail"]
               /\ UNCHANGED q_node
    /\ UNCHANGED << q_enqueue, q_dequeue, q_cpc, q_clocal, q_callers,
                    q_accepted, q_out, q_last >>
    /\ UNCHANGED << pipelineVars, prog, statics >>

\* conqueue_enqueue returning true without the compare-and-swap on
\* queue->enqueue.
enqueue_cas_tail_skipped(t) ==
    /\ q_pc[t] = "cas_tail"
    /\ q_accepted' = Append(q_accepted, q_local[t].value)
    /\ q_local' = [q_local EXCEPT ![t] = NoLocals]
    /\ q_pc' = [q_pc EXCEPT ![t] = "idle"]
    /\ UNCHANGED << q_node, q_enqueue, q_dequeue, q_cpc, q_clocal, q_callers,
                    q_out, q_last >>
    /\ UNCHANGED << pipelineVars, prog, statics >>

\* SDL_AtomicCASPtr(&queue->enqueue, enqueue, node); return true.
enqueue_cas_tail(t) ==
    /\ q_pc[t] = "cas_tail"
    /\ q_enqueue' = IF q_enqueue = q_local[t].enqueue
                    THEN q_local[t].node ELSE q_enqueue
    /\ q_accepted' = Append(q_accepted, q_local[t].value)
    /\ q_local' = [q_local EXCEPT ![t] = NoLocals]
    /\ q_pc' = [q_pc EXCEPT ![t] = "idle"]
    /\ UNCHANGED << q_node, q_dequeue, q_cpc, q_clocal, q_callers, q_out, q_last >>
    /\ UNCHANGED << pipelineVars, prog, statics >>

\* conqueue_dequeue: dequeue = queue->dequeue and the acquire load of
\* dequeue->next; an empty queue returns NULL.
dequeue_load ==
    /\ q_cpc = "idle"
    /\ LET next == q_node[q_dequeue].next
       IN IF next = NULL
          THEN /\ q_last' = "NULL"
               /\ UNCHANGED << q_cpc, q_clocal >>
          ELSE /\ q_clocal' = [dequeue |-> q_dequeue, next |-> next]
               /\ q_cpc' = "take"
               /\ UNCHANGED q_last
    /\ UNCHANGED << q_node, q_enqueue, q_dequeue, q_pc, q_local, q_callers,
                    q_accepted, q_out >>
    /\ UNCHANGED << pipelineVars, prog, statics >>

\* The value field of the node being freed instead of the new head's.
dequeue_value_of_old_head == q_node[q_clocal.dequeue].value

\* The value conqueue_dequeue returns for a non-empty queue.
dequeue_value == q_node[q_clocal.next].value

\* queue->dequeue = next; value = next->value; mem_free(dequeue); return value.
dequeue_take ==
    /\ q_cpc = "take"
    /\ q_dequeue' = q_clocal.next
    /\ q_out' = Append(q_out, dequeue_value)
    /\ q_node' = [q_node EXCEPT ![q_clocal.dequeue] = NoNode]
    /\ q_last' = "value"
    /\ q_clocal' = [dequeue |-> NULL, next |-> NULL]
    /\ q_cpc' = "idle"
    /\ UNCHANGED << q_enqueue, q_pc, q_local, q_callers, q_accepted >>
    /\ UNCHANGED << pipelineVars, prog, statics >>

QNext ==
    \/ \E t \in Producers, n \in NodeAddr : enqueue_alloc(t, n)
    \/ \E t \in Producers : enqueue_alloc_fail(t)
    \/ \E t \in Producers : enqueue_load_tail(t)
    \/ \E t \in Producers : enqueue_load_next(t)
    \/ \E t \in Producers : enqueue_cas_next(t)
    \/ \E t \in Producers : enqueue_cas_tail(t)
    \/ dequeue_load
    \/ dequeue_take

SpecQ == Init /\ [][QNext]_vars

\* ------------------------------------------ with conqueue_destroy (SpecD)
\* while (conqueue_dequeue(queue) != NULL) continue: the nodes from the head
\* d on are dequeued one after the other, each old head freed, the values
\* handed to the loop in out.
RECURSIVE DestroyDrain(_, _, _)
DestroyDrain(nodes, d, out) ==
    IF nodes[d].next = NULL
    THEN [nodes |-> nodes, dequeue |-> d, out |-> out]
    ELSE DestroyDrain([nodes EXCEPT ![d] = NoNode], nodes[d].next,
                      Append(out, nodes[nodes[d].next].value))

\* conqueue_destroy without its mem_free(queue->dequeue).
conqueue_destroy_keeps_sentinel ==
    /\ q_cpc = "idle"
    /\ \A t \in Producers : q_pc[t] = "idle"
    /\ LET r == DestroyDrain(q_node, q_dequeue, q_out)
       IN /\ q_node' = r.nodes
          /\ q_dequeue' = r.dequeue
          /\ q_out' = r.out
    /\ q_last' = "NULL"
    /\ q_cpc' = "destroyed"
    /\ UNCHANGED << q_enqueue, q_pc, q_local, q_clocal, q_callers, q_accepted >>
    /\ UNCHANGED << pipelineVars, prog, statics >>

\* conqueue_destroy, called by the consumer once the producer has stopped
\* enqueueing: the drain, mem_free(queue->dequeue), mem_free(queue).
conqueue_destroy ==
    /\ q_cpc = "idle"
    /\ \A t \in Producers : q_pc[t] = "idle"
    /\ LET r == DestroyDrain(q_node, q_dequeue, q_out)
       IN /\ q_node' = [r.nodes EXCEPT ![r.dequeue] = NoNode]
          /\ q_dequeue' = r.dequeue
          /\ q_out' = r.out
    /\ q_last' = "NULL"
    /\ q_cpc' = "destroyed"
    /\ UNCHANGED << q_enqueue, q_pc, q_local, q_clocal, q_callers, q_accepted >>
    /\ UNCHANGED << pipelineVars, prog, statics >>

\* The queue exists: conqueue_destroy has not been called.
QueueExists == q_cpc # "destroyed"

DNext ==
    \/ QueueExists /\ \E t \in Producers, n \in NodeAddr : enqueue_alloc(t, n)
    \/ QueueExists /\ \E t \in Producers : enqueue_alloc_fail(t)
    \/ \E t \in Producers : enqueue_load_tail(t)
    \/ \E t \in Producers : enqueue_load_next(t)
    \/ \E t \in Producers : enqueue_cas_next(t)
    \/ \E t \in Producers : enqueue_cas_tail(t)
    \/ dequeue_load
    \/ dequeue_take
    \/ conqueue_destroy

SpecD == Init /\ [][DNext]_vars


\* ------------------------------------ two producers, one consumer (SpecM)
\* log_printf enqueues into all_output_queue from whichever thread logs: the
\* main thread and the render thread both do.  The same steps as above, with
\* two enqueuing threads.
LogProducers == {"main", "render"}

InitM ==
    /\ FramesInit
    /\ ProgInit
    /\ StaticsInit
    /\ q_node = [n \in NodeAddr |->
                   IF n = 1 THEN [value |-> NULL, next |-> NULL, live |-> TRUE]
                            ELSE NoNode]
    /\ q_enqueue = 1
    /\ q_dequeue = 1
    /\ q_pc = [t \in LogProducers |-> "idle"]
    /\ q_local = [t \in LogProducers |-> NoLocals]
    /\ q_cpc = "idle"
    /\ q_clocal = [dequeue |-> NULL, next |-> NULL]
    /\ q_callers = <<>>
    /\ q_accepted = <<>>
    /\ q_out = <<>>
    /\ q_last = "none"

\* One step of conqueue_enqueue in thread t.
enqueue_step(t) ==
    \/ \E n \in NodeAddr : enqueue_alloc(t, n)
    \/ enqueue_alloc_fail(t)
    \/ enqueue_load_tail(t)
    \/ enqueue_load_next(t)
    \/ enqueue_cas_next(t)
    \/ enqueue_cas_tail(t)

\* One step of conqueue_dequeue in the consumer.
dequeue_step ==
    \/ dequeue_load
    \/ dequeue_take

MNext ==
    \/ \E t \in LogProducers, n \in NodeAddr : enqueue_alloc(t, n)
    \/ \E t \in LogProducers : enqueue_alloc_fail(t)
    \/ \E t \in LogProducers : enqueue_load_tail(t)
    \/ \E t \in LogProducers : enqueue_load_next(t)
    \/ \E t \in LogProducers : enqueue_cas_next(t)
    \/ \E t \in LogProducers : enqueue_cas_tail(t)
    \/ dequeue_load
    \/ dequeue_take

SpecM == InitM /\ [][MNext]_vars

\* Every producer keeps taking steps, and so does the consumer.
SpecMFair ==
    /\ InitM
    /\ [][MNext]_vars
    /\ \A t \in LogProducers : WF_vars(enqueue_step(t))
    /\ WF_vars(dequeue_step)


\* ------------------------------- log_all_output_dequeue of log.c (SpecL)
\* all_output_queue is the queue above; log_printf is its producer and the
\* main thread, in log_all_output_dequeue, its one consumer.  A
\* conqueue_dequeue call of that one consumer shares with the producer only
\* its acquire load of dequeue->next, so each call is one step here.

\* text = conqueue_dequeue(all_output_queue), in the call whose other
\* fields are those of base.
log_conqueue_dequeue(base) ==
    LET next == q_node[q_dequeue].next
    IN IF next = NULL
       THEN /\ statics' = [base EXCEPT !.lo_text = NULL]
            /\ q_last' = "NULL"
            /\ UNCHANGED << q_node, q_dequeue, q_out >>
       ELSE /\ statics' = [base EXCEPT
                              !.lo_text = q_node[next].value,
                              !.lo_taken = Append(@, q_node[next].value)]
            /\ q_dequeue' = next
            /\ q_out' = Append(q_out, q_node[next].value)
            /\ q_node' = [q_node EXCEPT ![q_dequeue] = NoNode]
            /\ q_last' = "value"

\* log_all_output_dequeue(allotted_time) up to the first test of the for
\* loop: start_time is taken, then the initialiser of the loop dequeues.
log_all_output_dequeue_begin(allotted) ==
    /\ lo_pc = "idle"
    /\ log_conqueue_dequeue([statics EXCEPT !.lo_allotted = allotted,
                                            !.lo_expired = FALSE,
                                            !.lo_taken = <<>>,
                                            !.lo_written = <<>>,
                                            !.lo_pc = "test"])
    /\ UNCHANGED << q_enqueue, q_pc, q_local, q_cpc, q_clocal, q_callers,
                    q_accepted >>
    /\ UNCHANGED << pipelineVars, prog >>

\* The test of the for loop: (allotted_time == LOG_ALL_OUTPUT_DEQUEUE_EMPTY
\* || nanotime_interval(start_time, nanotime_now(), now_max) < allotted_time)
\* && text != NULL.  past: the clock read here is past the allotted time;
\* time does not go back.  A false test leaves the loop; flushed is the
\* result of fflush(stdout), and the call returns.
log_all_output_dequeue_test(past, flushed) ==
    /\ lo_pc = "test"
    /\ lo_expired => past
    /\ IF (lo_allotted = "EMPTY" \/ ~past) /\ lo_text # NULL
       THEN statics' = [statics EXCEPT !.lo_expired = past, !.lo_pc = "write"]
       ELSE statics' = [statics EXCEPT
                           !.lo_expired = past,
                           !.lo_text = NULL,
                           !.lo_pc = "idle",
                           !.lo_ret = IF flushed THEN "true" ELSE "false"]
    /\ UNCHANGED << qVars, pipelineVars, prog >>

\* The body of the for loop and its increment: fputs or SDL_RWwrite of
\* text, mem_free(text); a failed write returns false, a good one is
\* followed by text = conqueue_dequeue(all_output_queue).
log_all_output_dequeue_write(put) ==
    /\ lo_pc = "write"
    /\ IF put
       THEN log_conqueue_dequeue([statics EXCEPT
                                    !.lo_written = Append(@, lo_text),
                                    !.lo_pc = "test"])
       ELSE /\ statics' = [statics EXCEPT !.lo_text = NULL, !.lo_pc = "idle",
                                           !.lo_ret = "false"]
            /\ UNCHANGED << q_node, q_dequeue, q_out, q_last >>
    /\ UNCHANGED << q_enqueue, q_pc, q_local, q_cpc, q_clocal, q_callers,
                    q_accepted >>
    /\ UNCHANGED << pipelineVars, prog >>

LNext ==
    \/ \E t \in Producers, n \in NodeAddr : enqueue_alloc(t, n)
    \/ \E t \in Producers : enqueue_alloc_fail(t)
    \/ \E t \in Producers : enqueue_load_tail(t)
    \/ \E t \in Producers : enqueue_load_next(t)
    \/ \E t \in Producers : enqueue_cas_next(t)
    \/ \E t \in Producers : enqueue_cas_tail(t)
    \/ \E allotted \in {"finite", "EMPTY"} : log_all_output_dequeue_begin(allotted)
    \/ \E past, flushed \in BOOLEAN : log_all_output_dequeue_test(past, flushed)
    \/ \E put \in BOOLEAN : log_all_output_dequeue_write(put)

SpecL == Init /\ [][LNext]_vars


\* ------------- the producer calling out of sequence, debug build (SpecS)
\* The producer alone, its ticks as above, and between two ticks calls of
\* frames_end and frames_enqueue_command with no frames_start before them.
\* The assertions of the two functions test next_latest_frame != NULL;
\* frames_end does not reset the pointer.

\* frames_end called between ticks, the whole call: the assertion, ended =
\* true, conqueue_enqueue (ok: it succeeds), and the store into latest_frame
\* or the free of the frame.
frames_end_unstarted(ok) ==
    /\ ppc = "idle"
    /\ Len(frame_queues) <= MaxFrames
    /\ IF next_latest_frame = NULL
       THEN /\ ppc' = "asserted"
            /\ UNCHANGED << frameVars, sealed, latestId >>
       ELSE IF ok
       THEN /\ heap' = [heap EXCEPT ![next_latest_frame].ended = TRUE]
            /\ frame_queues' = conqueue_enqueue(frame_queues, next_latest_frame)
            /\ sealed' = Append(sealed, heap[next_latest_frame].id)
            /\ latest_frame' = next_latest_frame
            /\ latestId' = heap[next_latest_frame].id
            /\ UNCHANGED << next_latest_frame, ppc >>
       ELSE /\ heap' = [heap EXCEPT ![next_latest_frame] = NoFrame]
            /\ ppc' = "stopped"
            /\ UNCHANGED << frame_queues, next_latest_frame, latest_frame,
                            sealed, latestId >>
    /\ quiet' = FALSE
    /\ UNCHANGED << nStarted, nCmds, built, midDrain >>
    /\ UNCHANGED << cpc, consumerLocals, consumerObs >>
    /\ UNCHANGED << qVars, prog, statics >>

\* frames_enqueue_command called between ticks, the whole call: the
\* assertions, then queue_enqueue on next_latest_frame->commands.
frames_enqueue_command_unstarted(funcs) ==
    /\ ppc = "idle"
    /\ nCmds < MaxCmds
    /\ IF next_latest_frame = NULL
       THEN /\ ppc' = "asserted"
            /\ UNCHANGED << heap, nCmds >>
       ELSE /\ heap' = [heap EXCEPT ![next_latest_frame].commands =
                          Append(@, [funcs |-> funcs, cid |-> Len(@) + 1])]
            /\ nCmds' = nCmds + 1
            /\ UNCHANGED ppc
    /\ quiet' = FALSE
    /\ UNCHANGED << frame_queues, next_latest_frame, latest_frame,
                    nStarted, sealed, built, latestId, midDrain >>
    /\ UNCHANGED << cpc, consumerLocals, consumerObs >>
    /\ UNCHANGED << qVars, prog, statics >>

SNext ==
    \/ \E a \in Addr : frames_start_ok(a)
    \/ frames_start_fail
    \/ \E funcs \in CommandFuncs : frames_enqueue_command_ok(funcs)
    \/ frames_enqueue_command_fail
    \/ frames_end_enqueue
    \/ frames_end_fail
    \/ frames_end_publish
    \/ producer_quit
    \/ \E ok \in BOOLEAN : frames_end_unstarted(ok)
    \/ \E funcs \in CommandFuncs : frames_enqueue_command_unstarted(funcs)

SpecS == Init /\ [][SNext]_vars


\* ------------------- assert_current_thread_is_consumer, debug build (SpecA)
\* Two threads call conqueue_dequeue and conqueue_destroy; each call starts
\* with assert_current_thread_is_consumer.  A failed assertion ends the
\* process.  The run ends when conqueue_destroy has freed the queue: what a
\* thread still inside the check would read from the freed object is left
\* out.
ConsumerRunning == ~a_aborted /\ ~a_destroyed

otherVars == << pipelineVars, qVars, prog >>

\* A thread enters conqueue_dequeue or conqueue_destroy.
consumer_call(t, op) ==
    /\ ConsumerRunning
    /\ a_pc[t] = "idle"
    /\ a_calls[t] < MaxCalls
    /\ statics' = [statics EXCEPT !.a_pc[t] = "cas",
                                  !.a_op[t] = op,
                                  !.a_calls[t] = @ + 1]
    /\ UNCHANGED otherVars

\* SDL_AtomicCAS(&queue->consumer_set, 0, 1).
consumer_cas(t) ==
    /\ ConsumerRunning
    /\ a_pc[t] = "cas"
    /\ statics' = [statics EXCEPT
                     !.consumer_set = IF @ = 0 THEN 1 ELSE @,
                     !.a_first = IF @ = "none" THEN t ELSE @,
                     !.a_pc[t] = IF consumer_set = 0 THEN "store_consumer" ELSE "spin"]
    /\ UNCHANGED otherVars

\* queue->consumer = SDL_ThreadID().
consumer_store(t) ==
    /\ ConsumerRunning
    /\ a_pc[t] = "store_consumer"
    /\ statics' = [statics EXCEPT !.consumer = t, !.a_pc[t] = "store_set"]
    /\ UNCHANGED otherVars

\* SDL_AtomicSet(&queue->consumer_set, 2).
consumer_store_set(t) ==
    /\ ConsumerRunning
    /\ a_pc[t] = "store_set"
    /\ statics' = [statics EXCEPT !.consumer_set = 2, !.a_pc[t] = "spin"]
    /\ UNCHANGED otherVars

\* The loop left after one read of consumer_set, whatever it read.
consumer_spin_once(t) ==
    /\ ConsumerRunning
    /\ a_pc[t] = "spin"
    /\ statics' = [statics EXCEPT !.a_pc[t] = "assert"]
    /\ UNCHANGED otherVars

\* while (true): the read of consumer_set that finds 2 leaves the loop (a
\* read that finds 0 or 1 changes nothing).
consumer_spin(t) ==
    /\ ConsumerRunning
    /\ a_pc[t] = "spin"
    /\ consumer_set = 2
    /\ statics' = [statics EXCEPT !.a_pc[t] = "assert"]
    /\ UNCHANGED otherVars

\* assert(SDL_ThreadID() == queue->consumer).  passes is what the
\* comparison gives when consumer has not been written yet.
consumer_assert(t, passes) ==
    /\ ConsumerRunning
    /\ a_pc[t] = "assert"
    /\ consumer # "unset" => passes = (consumer = t)
    /\ statics' = IF passes
                  THEN [statics EXCEPT !.a_pc[t] = "body"]
                  ELSE [statics EXCEPT !.a_pc[t] = "failed", !.a_aborted = TRUE]
    /\ UNCHANGED otherVars

\* The rest of conqueue_dequeue or conqueue_destroy.
consumer_body(t) ==
    /\ ConsumerRunning
    /\ a_pc[t] = "body"
    /\ statics' = [statics EXCEPT
                     !.a_pc[t] = "idle",
                     !.a_destroyed = (a_op[t] = "conqueue_destroy")]
    /\ UNCHANGED otherVars

consumer_thread_step(t) ==
    \/ \E op \in {"conqueue_dequeue", "conqueue_destroy"} : consumer_call(t, op)
    \/ consumer_cas(t)
    \/ consumer_store(t)
    \/ consumer_store_set(t)
    \/ consumer_spin(t)
    \/ \E passes \in BOOLEAN : consumer_assert(t, passes)
    \/ consumer_body(t)

ANext ==
    \/ \E t \in ConsumerThreads, op \in {"conqueue_dequeue", "conqueue_destroy"} :
          consumer_call(t, op)
    \/ \E t \in ConsumerThreads : consumer_cas(t)
    \/ \E t \in ConsumerThreads : consumer_store(t)
    \/ \E t \in ConsumerThreads : consumer_store_set(t)
    \/ \E t \in ConsumerThreads : consumer_spin(t)
    \/ \E t \in ConsumerThreads, passes \in BOOLEAN : consumer_assert(t, passes)
    \/ \E t \in ConsumerThreads : consumer_body(t)

SpecA == Init /\ [][ANext]_vars

\* Every thread inside a call keeps taking steps.
SpecAFair ==
    /\ Init
    /\ [][ANext]_vars
    /\ \A t \in ConsumerThreads : WF_vars(consumer_thread_step(t))


\* ============= main thread and present thread of framework/main.c (SpecP) ==

\* Every step is one access to what both threads can see (shared_current,
\* an in_use flag, present_sem, quit_now, the commands of an element) with
\* the thread-private code around it.  A thread whose place is
\* "commands_empty", "game_update" or "commands_flush" is inside that call.

\* main: game_init; a failure sets quit_now and waits for the present thread.
framework_game_init(ok) ==
    /\ fw_pc = "game_init"
    /\ statics' = IF ok
                  THEN [statics EXCEPT !.fw_pc = "loop_test"]
                  ELSE [statics EXCEPT !.fw_quit_now = 1,
                                       !.fw_exit_code = "EXIT_FAILURE",
                                       !.fw_pc = "wait_thread"]
    /\ UNCHANGED otherVars

\* main, the loop condition and the read of shared_current: event_filter
\* sets quit_now on SDL_QUIT, then quit_now is read.
framework_loop_test(sdl_quit) ==
    /\ fw_pc = "loop_test"
    /\ statics' = IF sdl_quit \/ fw_quit_now = 1
                  THEN [statics EXCEPT !.fw_quit_now = 1, !.fw_pc = "quit_now"]
                  ELSE [statics EXCEPT !.fw_current = shared_current,
                                       !.fw_i = 0,
                                       !.fw_pc = "search"]
    /\ UNCHANGED otherVars

\* main, one iteration of the search: shared_data[i] is taken when it is
\* not current and its in_use reads 0; the loop ends without a break when
\* i reaches lengthof(shared_data).
framework_search ==
    /\ fw_pc = "search"
    /\ statics' = IF fw_i # fw_current /\ in_use[fw_i] = 0
                  THEN [statics EXCEPT !.fw_pc = "commands_empty"]
                  ELSE [statics EXCEPT
                          !.fw_i = @ + 1,
                          !.fw_pc = IF fw_i + 1 < lengthof_shared_data
                                    THEN "search" ELSE "game_update"]
    /\ UNCHANGED otherVars

\* main: commands_empty(shared_data[i].commands) returns.
framework_commands_empty(ok) ==
    /\ fw_pc = "commands_empty"
    /\ statics' = IF ok
                  THEN [statics EXCEPT !.fw_pc = "game_update"]
                  ELSE [statics EXCEPT !.fw_exit_code = "EXIT_FAILURE",
                                       !.fw_pc = "quit_now"]
    /\ UNCHANGED otherVars

\* main: game_update(shared_data[i].commands) returns.
framework_game_update(ok) ==
    /\ fw_pc = "game_update"
    /\ statics' = IF ok
                  THEN [statics EXCEPT !.fw_pc = "set_current"]
                  ELSE [statics EXCEPT !.fw_exit_code = "EXIT_FAILURE",
                                       !.fw_pc = "quit_now"]
    /\ UNCHANGED otherVars

\* main: SDL_AtomicSetPtr(&shared_current, &shared_data[i]).
framework_set_current ==
    /\ fw_pc = "set_current"
    /\ statics' = [statics EXCEPT !.shared_current = fw_i,
                                  !.fw_pc = "sem_value"]
    /\ UNCHANGED otherVars

\* main: SDL_SemValue(present_sem).
framework_sem_value ==
    /\ fw_pc = "sem_value"
    /\ statics' = [statics EXCEPT !.fw_value = present_sem,
                                  !.fw_pc = "sem_post"]
    /\ UNCHANGED otherVars

\* main: SDL_SemPost(present_sem) when the value read was 0; a failing post
\* leaves the loop.
framework_sem_post(ok) ==
    /\ fw_pc = "sem_post"
    /\ statics' = IF fw_value # 0
                  THEN [statics EXCEPT !.fw_pc = "loop_test"]
                  ELSE IF ok
                  THEN [statics EXCEPT !.present_sem = @ + 1,
                                       !.fw_pc = "loop_test"]
                  ELSE [statics EXCEPT !.fw_exit_code = "EXIT_FAILURE",
                                       !.fw_pc = "quit_now"]
    /\ UNCHANGED otherVars

\* main after the loop: SDL_AtomicSet(&quit_now, 1) and game_deinit.
framework_quit_now ==
    /\ fw_pc = "quit_now"
    /\ statics' = [statics EXCEPT !.fw_quit_now = 1, !.fw_pc = "final_post"]
    /\ UNCHANGED otherVars

\* main after the loop: SDL_SemPost(present_sem).
framework_final_post(ok) ==
    /\ fw_pc = "final_post"
    /\ statics' = IF ok
                  THEN [statics EXCEPT !.present_sem = @ + 1,
                                       !.fw_pc = "wait_thread"]
                  ELSE [statics EXCEPT !.fw_exit_code = "EXIT_FAILURE",
                                       !.fw_pc = "wait_thread"]
    /\ UNCHANGED otherVars

\* main: SDL_WaitThread(present_thread) returns once present has returned;
\* a status of 0 gives EXIT_FAILURE.
framework_wait_thread ==
    /\ fw_pc = "wait_thread"
    /\ present_pc = "returned"
    /\ statics' = [statics EXCEPT
                     !.fw_exit_code = IF present_status = 0
                                      THEN "EXIT_FAILURE" ELSE @,
                     !.fw_pc = "done"]
    /\ UNCHANGED otherVars

\* present before its loop: app_context_create and refresh_rate_get; a
\* failure sets quit_now and returns 0.
present_start(ok) ==
    /\ present_pc = "start"
    /\ statics' = IF ok
                  THEN [statics EXCEPT !.present_pc = "sem_wait"]
                  ELSE [statics EXCEPT !.fw_quit_now = 1,
                                       !.present_status = 0,
                                       !.present_pc = "returned"]
    /\ UNCHANGED otherVars

\* present: SDL_SemWait(present_sem) returns, or fails and the loop is
\* left with status 0 and quit_now set.
present_sem_wait(ok) ==
    /\ present_pc = "sem_wait"
    /\ ok => present_sem > 0
    /\ statics' = IF ok
                  THEN [statics EXCEPT !.present_sem = @ - 1,
                                       !.present_pc = "quit_now"]
                  ELSE [statics EXCEPT !.present_status = 0,
                                       !.fw_quit_now = 1,
                                       !.present_pc = "deinit"]
    /\ UNCHANGED otherVars

\* present: the read of quit_now.
present_quit_now ==
    /\ present_pc = "quit_now"
    /\ statics' = [statics EXCEPT
                     !.present_pc = IF fw_quit_now = 1
                                    THEN "deinit" ELSE "get_current"]
    /\ UNCHANGED otherVars

\* present: current = SDL_AtomicGetPtr(&shared_current).
present_get_current ==
    /\ present_pc = "get_current"
    /\ statics' = [statics EXCEPT !.present_current = shared_current,
                                  !.present_pc = "set_in_use"]
    /\ UNCHANGED otherVars

\* present: SDL_AtomicSet(&current->in_use, 1), then the flush begins.
present_set_in_use ==
    /\ present_pc = "set_in_use"
    /\ statics' = [statics EXCEPT !.in_use[present_current] = 1,
                                  !.present_pc = "commands_flush"]
    /\ UNCHANGED otherVars

\* present leaving an iteration with in_use still set.
present_commands_flush_keeps_in_use(ok) ==
    /\ present_pc = "commands_flush"
    /\ statics' = IF ok
                  THEN [statics EXCEPT !.present_pc = "sem_wait"]
                  ELSE [statics EXCEPT !.present_status = 0,
                                       !.fw_quit_now = 1,
                                       !.present_pc = "deinit"]
    /\ UNCHANGED otherVars

\* present: refresh_rate_get, present_init, commands_flush and the swap,
\* then SDL_AtomicSet(&current->in_use, 0); a failure of one of the three
\* clears in_use too, sets quit_now and leaves the loop with status 0.
present_commands_flush(ok) ==
    /\ present_pc = "commands_flush"
    /\ statics' = IF ok
                  THEN [statics EXCEPT !.in_use[present_current] = 0,
                                       !.present_pc = "sem_wait"]
                  ELSE [statics EXCEPT !.in_use[present_current] = 0,
                                       !.present_status = 0,
                                       !.fw_quit_now = 1,
                                       !.present_pc = "deinit"]
    /\ UNCHANGED otherVars

\* present after the loop: present_deinit, app_context_destroy, return.
present_deinit ==
    /\ present_pc = "deinit"
    /\ statics' = [statics EXCEPT !.present_pc = "returned"]
    /\ UNCHANGED otherVars

PNext ==
    \/ \E ok \in BOOLEAN : framework_game_init(ok)
    \/ \E sdl_quit \in BOOLEAN : framework_loop_test(sdl_quit)
    \/ framework_search
    \/ \E ok \in BOOLEAN : framework_commands_empty(ok)
    \/ \E ok \in BOOLEAN : framework_game_update(ok)
    \/ framework_set_current
    \/ framework_sem_value
    \/ \E ok \in BOOLEAN : framework_sem_post(ok)
    \/ framework_quit_now
    \/ \E ok \in BOOLEAN : framework_final_post(ok)
    \/ framework_wait_thread
    \/ \E ok \in BOOLEAN : present_start(ok)
    \/ \E ok \in BOOLEAN : present_sem_wait(ok)
    \/ present_quit_now
    \/ present_get_current
    \/ present_set_in_use
    \/ \E ok \in BOOLEAN : present_commands_flush(ok)
    \/ present_deinit

SpecP == Init /\ [][PNext]_vars


\* ================ main thread and render thread of main/main.c (SpecG) ====

\* Every step is one semaphore operation or one access to quit_now with the
\* thread-private code around it.

GamePost(m) == [game_sems EXCEPT ![m] = @ + 1]
GameWait(m) == [game_sems EXCEPT ![m] = @ - 1]

\* main: SEM_POST(sem_render_start).
main_post_render_start ==
    /\ gm_pc = "post_render_start"
    /\ statics' = [statics EXCEPT !.game_sems = GamePost("sem_render_start"),
                                  !.gm_pc = "create_thread"]
    /\ UNCHANGED otherVars

\* main: SDL_CreateThread; without a thread main cleans up and returns.
main_create_thread(ok) ==
    /\ gm_pc = "create_thread"
    /\ statics' = IF ok
                  THEN [statics EXCEPT !.rt_pc = "wait_start",
                                       !.gm_pc = "wait_init_game"]
                  ELSE [statics EXCEPT !.gm_exit_code = "EXIT_FAILURE",
                                       !.gm_pc = "returned"]
    /\ UNCHANGED otherVars

\* main: SEM_WAIT(sem_init_game).
main_wait_init_game ==
    /\ gm_pc = "wait_init_game"
    /\ game_sems["sem_init_game"] > 0
    /\ statics' = [statics EXCEPT !.game_sems = GameWait("sem_init_game"),
                                  !.gm_pc = "game_init"]
    /\ UNCHANGED otherVars

\* main: game_init; a failure sets quit_now and goes to SDL_WaitThread.
main_game_init(ok) ==
    /\ gm_pc = "game_init"
    /\ statics' = IF ok
                  THEN [statics EXCEPT !.gm_pc = "luaL_newstate"]
                  ELSE [statics EXCEPT !.quit_now = 1,
                                       !.gm_exit_code = "EXIT_FAILURE",
                                       !.gm_pc = "wait_thread_init"]
    /\ UNCHANGED otherVars

\* main: luaL_newstate; NULL sets quit_now and goes to SDL_WaitThread.
main_luaL_newstate(ok) ==
    /\ gm_pc = "luaL_newstate"
    /\ statics' = IF ok
                  THEN [statics EXCEPT !.gm_pc = "loop_test"]
                  ELSE [statics EXCEPT !.quit_now = 1,
                                       !.gm_exit_code = "EXIT_FAILURE",
                                       !.gm_pc = "wait_thread_init"]
    /\ UNCHANGED otherVars

\* main, the loop condition: event_filter sets quit_now on SDL_QUIT, then
\* quit_now is read.
main_loop_test(sdl_quit) ==
    /\ gm_pc = "loop_test"
    /\ statics' = IF sdl_quit \/ quit_now = 1
                  THEN [statics EXCEPT !.quit_now = 1,
                                       !.gm_pc = "post_deinit_render"]
                  ELSE [statics EXCEPT !.gm_pc = "tick"]
    /\ UNCHANGED otherVars

\* main: frames_start, game_update and frames_end; a failure of one of them
\* sets quit_now and leaves the loop.
main_tick(ok) ==
    /\ gm_pc = "tick"
    /\ statics' = IF ok
                  THEN [statics EXCEPT !.gm_pc = "post_after_tick"]
                  ELSE [statics EXCEPT !.quit_now = 1,
                                       !.gm_exit_code = "EXIT_FAILURE",
                                       !.gm_pc = "post_deinit_render"]
    /\ UNCHANGED otherVars

\* main: SDL_SemPost(sem_render_after_tick) of the tick, then quit_game
\* sets quit_now and leaves the loop.
main_post_after_tick(quit_game) ==
    /\ gm_pc = "post_after_tick"
    /\ game_sems["sem_render_after_tick"] < MaxPosts
    /\ statics' = IF quit_game
                  THEN [statics EXCEPT
                          !.game_sems = GamePost("sem_render_after_tick"),
                          !.quit_now = 1,
                          !.gm_pc = "post_deinit_render"]
                  ELSE [statics EXCEPT
                          !.game_sems = GamePost("sem_render_after_tick"),
                          !.gm_pc = "loop_test"]
    /\ UNCHANGED otherVars

\* main after the loop: SEM_POST(sem_deinit_render).
main_post_deinit_render ==
    /\ gm_pc = "post_deinit_render"
    /\ statics' = [statics EXCEPT !.game_sems = GamePost("sem_deinit_render"),
                                  !.gm_pc = "final_post"]
    /\ UNCHANGED otherVars

\* main after the loop: the final SDL_SemPost(sem_render_after_tick).
main_final_post ==
    /\ gm_pc = "final_post"
    /\ statics' = [statics EXCEPT
                     !.game_sems = GamePost("sem_render_after_tick"),
                     !.gm_pc = "wait_thread"]
    /\ UNCHANGED otherVars

\* main: SDL_WaitThread(render_thread), after the loop or on one of the two
\* initialisation failure paths, then the cleanup and the return.
main_wait_thread ==
    /\ gm_pc \in {"wait_thread", "wait_thread_init"}
    /\ rt_pc = "returned"
    /\ statics' = [statics EXCEPT
                     !.gm_exit_code = IF rt_exit_code = "EXIT_FAILURE"
                                      THEN "EXIT_FAILURE" ELSE @,
                     !.gm_pc = "returned"]
    /\ UNCHANGED otherVars

\* render_thread_function: SEM_WAIT(sem_render_start).
render_thread_function_wait_start ==
    /\ rt_pc = "wait_start"
    /\ game_sems["sem_render_start"] > 0
    /\ statics' = [statics EXCEPT !.game_sems = GameWait("sem_render_start"),
                                  !.rt_pc = "setup"]
    /\ UNCHANGED otherVars

\* render_thread_function, the setup: a failure of app_window_get, of the
\* context, of SDL_GL_MakeCurrent, SDL_GL_SetSwapInterval, frames_create or
\* render_init returns EXIT_FAILURE; after a success render_frames is
\* stored and SEM_POST(sem_init_game) made.
render_thread_function_setup(ok) ==
    /\ rt_pc = "setup"
    /\ statics' = IF ok
                  THEN [statics EXCEPT !.game_sems = GamePost("sem_init_game"),
                                       !.rt_pc = "wait_after_tick"]
                  ELSE [statics EXCEPT !.rt_exit_code = "EXIT_FAILURE",
                                       !.rt_pc = "returned"]
    /\ UNCHANGED otherVars

\* render_thread_function, the loop: SDL_SemWait(sem_render_after_tick).
render_thread_function_wait_after_tick ==
    /\ rt_pc = "wait_after_tick"
    /\ game_sems["sem_render_after_tick"] > 0
    /\ statics' = [statics EXCEPT
                     !.game_sems = GameWait("sem_render_after_tick"),
                     !.rt_pc = "quit_now"]
    /\ UNCHANGED otherVars

\* render_thread_function, the loop: the read of quit_now.
render_thread_function_quit_now ==
    /\ rt_pc = "quit_now"
    /\ statics' = [statics EXCEPT
                     !.rt_pc = IF quit_now = 1 THEN "wait_deinit" ELSE "draw"]
    /\ UNCHANGED otherVars

\* render_thread_function, the rest of an iteration: a failing
\* frame_rate_get sets quit_now and leaves the loop, a failing
\* frames_draw_latest leaves the loop without setting it.
render_thread_function_draw(outcome) ==
    /\ rt_pc = "draw"
    /\ statics' = CASE outcome = "ok" ->
                         [statics EXCEPT !.rt_pc = "wait_after_tick"]
                    [] outcome = "frame_rate_get" ->
                         [statics EXCEPT !.quit_now = 1,
                                         !.rt_exit_code = "EXIT_FAILURE",
                                         !.rt_pc = "wait_deinit"]
                    [] outcome = "frames_draw_latest" ->
                         [statics EXCEPT !.rt_exit_code = "EXIT_FAILURE",
                                         !.rt_pc = "wait_deinit"]
    /\ UNCHANGED otherVars

\* render_thread_function after the loop: SEM_WAIT(sem_deinit_render), the
\* teardown and the return.
render_thread_function_wait_deinit ==
    /\ rt_pc = "wait_deinit"
    /\ game_sems["sem_deinit_render"] > 0
    /\ statics' = [statics EXCEPT !.game_sems = GameWait("sem_deinit_render"),
                                  !.rt_pc = "returned"]
    /\ UNCHANGED otherVars

\* A step of the main thread of main/main.c.
game_main_step ==
    \/ main_post_render_start
    \/ \E ok \in BOOLEAN : main_create_thread(ok)
    \/ main_wait_init_game
    \/ \E ok \in BOOLEAN : main_game_init(ok)
    \/ \E ok \in BOOLEAN : main_luaL_newstate(ok)
    \/ \E sdl_quit \in BOOLEAN : main_loop_test(sdl_quit)
    \/ \E ok \in BOOLEAN : main_tick(ok)
    \/ \E quit_game \in BOOLEAN : main_post_after_tick(quit_game)
    \/ main_post_deinit_render
    \/ main_final_post
    \/ main_wait_thread

\* A step of the render thread of main/main.c.
game_render_step ==
    \/ render_thread_function_wait_start
    \/ \E ok \in BOOLEAN : render_thread_function_setup(ok)
    \/ render_thread_function_wait_after_tick
    \/ render_thread_function_quit_now
    \/ \E outcome \in {"ok", "frame_rate_get", "frames_draw_latest"} :
          render_thread_function_draw(outcome)
    \/ render_thread_function_wait_deinit

GNext ==
    \/ main_post_render_start
    \/ \E ok \in BOOLEAN : main_create_thread(ok)
    \/ main_wait_init_game
    \/ \E ok \in BOOLEAN : main_game_init(ok)
    \/ \E ok \in BOOLEAN : main_luaL_newstate(ok)
    \/ \E sdl_quit \in BOOLEAN : main_loop_test(sdl_quit)
    \/ \E ok \in BOOLEAN : main_tick(ok)
    \/ \E quit_game \in BOOLEAN : main_post_after_tick(quit_game)
    \/ main_post_deinit_render
    \/ main_final_post
    \/ main_wait_thread
    \/ render_thread_function_wait_start
    \/ \E ok \in BOOLEAN : render_thread_function_setup(ok)
    \/ render_thread_function_wait_after_tick
    \/ render_thread_function_quit_now
    \/ \E outcome \in {"ok", "frame_rate_get", "frames_draw_latest"} :
          render_thread_function_draw(outcome)
    \/ render_thread_function_wait_deinit

SpecG == Init /\ [][GNext]_vars

\* Each thread that can take a step goes on to take one: a semaphore is
\* waited on by one thread only, so a wait that can return stays able to.
SpecGFair ==
    /\ Init
    /\ [][GNext]_vars
    /\ WF_vars(game_main_step)
    /\ WF_vars(game_render_step)


\* ======================= main thread and render thread of prog.c (SpecH) ==

\* Every step below is one access to what both threads can see (a
\* semaphore, quit_status, main_thread_opengl_context, the context itself)
\* together with the thread-private code around it.  The build is the one
\* without assertions: a failed initialisation reaches prog_deinit.

restVars == << pipelineVars, qVars, statics >>

\* The value of the semaphores after SEM_POST(sem).
SEM_POST(sem) == [sems EXCEPT ![sem] = @ + 1]

\* The value of the semaphores after SEM_WAIT(sem), which returns when the
\* semaphore is positive.
SEM_WAIT(sem) == [sems EXCEPT ![sem] = @ - 1]

\* The calls made on the context so far and one more, with what is true
\* when it is made.
ContextOp(ops, thread, op) ==
    ops \cup {[thread |-> thread, op |-> op, published |-> published,
               joined |-> joined]}

\* ---------------------------------------------------------- main thread ---

\* sems_init of render_thread_init: the five semaphores are created with
\* value 0, or a creation fails and render_thread_init returns false.
sems_init(ok) ==
    /\ m_pc = "sems_init"
    /\ prog' = [prog EXCEPT
                  !.sems_inited_flag = ok,
                  !.m_pc = IF ok THEN "context_create" ELSE "prog_deinit"]
    /\ UNCHANGED restVars

\* opengl_context_create, SDL_GL_CreateContext: the new context is current
\* in the calling thread; or no context is created and NULL is returned.
opengl_context_create_begin(ok) ==
    /\ m_pc = "context_create"
    /\ prog' = IF ok
               THEN [prog EXCEPT
                       !.gl_context = "alive",
                       !.gl_current = @ \cup {"main"},
                       !.ctx_ops = ContextOp(@, "main", "create"),
                       !.m_pc = "context_release"]
               ELSE [prog EXCEPT !.m_pc = "prog_deinit"]
    /\ UNCHANGED restVars

\* opengl_context_create, the rest: the attribute, version, loader and swap
\* interval checks, then SDL_GL_MakeCurrent(current_window, NULL); a failed
\* check deletes the context as well and NULL is returned.
opengl_context_create_end(ok) ==
    /\ m_pc = "context_release"
    /\ prog' = IF ok
               THEN [prog EXCEPT
                       !.gl_current = @ \ {"main"},
                       !.ctx_ops = ContextOp(@, "main", "release"),
                       !.m_pc = "publish"]
               ELSE [prog EXCEPT
                       !.gl_current = @ \ {"main"},
                       !.gl_context = "deleted",
                       !.ctx_ops = ContextOp(ContextOp(@, "main", "release"),
                                             "main", "delete"),
                       !.m_pc = "prog_deinit"]
    /\ UNCHANGED restVars

\* render_thread_init going on to SEM_POST(render_start_sem) without the
\* store into main_thread_opengl_context.
render_thread_init_unpublished ==
    /\ m_pc = "publish"
    /\ prog' = [prog EXCEPT !.m_pc = "post_start"]
    /\ UNCHANGED restVars

\* render_thread_init: the release store of the context into
\* main_thread_opengl_context.
render_thread_init_publish ==
    /\ m_pc = "publish"
    /\ prog' = [prog EXCEPT
                  !.main_thread_opengl_context = CONTEXT,
                  !.published = TRUE,
                  !.m_pc = "post_start"]
    /\ UNCHANGED restVars

\* render_thread_init: SEM_POST(render_start_sem).
render_thread_init_post ==
    /\ m_pc = "post_start"
    /\ prog' = [prog EXCEPT
                  !.sems = SEM_POST("render_start_sem"),
                  !.m_pc = "create_thread"]
    /\ UNCHANGED restVars

\* render_thread_init: SDL_CreateThread starts render_thread_func, or fails
\* and render_thread_init returns false.
SDL_CreateThread(ok) ==
    /\ m_pc = "create_thread"
    /\ prog' = IF ok
               THEN [prog EXCEPT
                       !.render_thread = 1,
                       !.r_pc = "name_set",
                       !.m_pc = "wait_log_filename"]
               ELSE [prog EXCEPT !.m_pc = "prog_deinit"]
    /\ UNCHANGED restVars

\* render_thread_init: SEM_WAIT(log_filename_sem).
render_thread_init_wait ==
    /\ m_pc = "wait_log_filename"
    /\ sems["log_filename_sem"] > 0
    /\ prog' = [prog EXCEPT
                  !.sems = SEM_WAIT("log_filename_sem"),
                  !.m_pc = "check_log_filename"]
    /\ UNCHANGED restVars

\* render_thread_init: the read of quit_status after the wait.  On
\* QUIT_FAILURE the render thread is joined and false is returned;
\* otherwise render_thread_inited is set and app_thread_init follows.
render_thread_init_check ==
    /\ m_pc = "check_log_filename"
    /\ prog' = IF quit_status = "QUIT_FAILURE"
               THEN [prog EXCEPT !.m_pc = "join_init"]
               ELSE [prog EXCEPT
                       !.render_thread_inited = TRUE,
                       !.m_pc = "wait_init_app"]
    /\ UNCHANGED restVars

\* app_thread_init: SEM_WAIT(init_app_sem).
app_thread_init_wait ==
    /\ m_pc = "wait_init_app"
    /\ sems["init_app_sem"] > 0
    /\ prog' = [prog EXCEPT
                  !.sems = SEM_WAIT("init_app_sem"),
                  !.m_pc = "check_init_app"]
    /\ UNCHANGED restVars

\* app_thread_init: the read of quit_status after the wait.  On
\* QUIT_FAILURE render_now_sem is posted (ok: the post succeeds) and the
\* render thread joined; otherwise Lua and app_init are set up (ok: both
\* succeed) and the ticks begin.
app_thread_init_check(ok) ==
    /\ m_pc = "check_init_app"
    /\ prog' = IF quit_status = "QUIT_FAILURE"
               THEN (IF ok
                     THEN [prog EXCEPT
                             !.sems = SEM_POST("render_now_sem"),
                             !.m_pc = "join_app"]
                     ELSE [prog EXCEPT !.m_pc = "prog_deinit"])
               ELSE [prog EXCEPT
                       !.m_pc = IF ok THEN "prog_update" ELSE "prog_deinit"]
    /\ UNCHANGED restVars

\* prog_update up to its first access to shared state: a quit request
\* stores QUIT_SUCCESS, a failing frames_start, app_update or frames_end
\* stores QUIT_FAILURE, and a complete tick goes on to render_now_sem.
prog_update_tick(outcome) ==
    /\ m_pc = "prog_update"
    /\ prog' = CASE outcome = "quit" ->
                      [prog EXCEPT !.quit_status = "QUIT_SUCCESS",
                                   !.m_pc = "update_return"]
                 [] outcome = "error" ->
                      [prog EXCEPT !.quit_status = "QUIT_FAILURE",
                                   !.m_pc = "update_return"]
                 [] outcome = "tick" ->
                      [prog EXCEPT !.sealed_undrawn = TRUE,
                                   !.m_pc = "sem_value"]
    /\ UNCHANGED restVars

\* prog_update: SDL_SemValue(render_now_sem).
prog_update_sem_value ==
    /\ m_pc = "sem_value"
    /\ prog' = [prog EXCEPT
                  !.m_value = sems["render_now_sem"],
                  !.m_pc = "sem_post"]
    /\ UNCHANGED restVars

\* prog_update posting render_now_sem when the value read was not 0, and
\* going on without SDL_SemPost when it was 0.
prog_update_sem_post_nonzero ==
    /\ m_pc = "sem_post"
    /\ prog' = [prog EXCEPT
                  !.sems = IF m_value # 0 THEN SEM_POST("render_now_sem") ELSE @,
                  !.m_value = 0,
                  !.m_pc = "quit_app"]
    /\ UNCHANGED restVars

\* prog_update: SDL_SemPost(render_now_sem) when the value read was 0.
prog_update_sem_post ==
    /\ m_pc = "sem_post"
    /\ prog' = [prog EXCEPT
                  !.sems = IF m_value = 0 THEN SEM_POST("render_now_sem") ELSE @,
                  !.m_value = 0,
                  !.m_pc = "quit_app"]
    /\ UNCHANGED restVars

\* prog_update: an in-app quit request stores QUIT_SUCCESS.
prog_update_quit_app(quit_app) ==
    /\ m_pc = "quit_app"
    /\ prog' = [prog EXCEPT
                  !.quit_status = IF quit_app THEN "QUIT_SUCCESS" ELSE @,
                  !.m_pc = "update_return"]
    /\ UNCHANGED restVars

\* prog_update: the final read of quit_status, which the caller's loop
\* tests: QUIT_NOT gives the next tick, anything else prog_deinit.
prog_update_return ==
    /\ m_pc = "update_return"
    /\ prog' = [prog EXCEPT
                  !.m_pc = IF quit_status = "QUIT_NOT"
                           THEN "prog_update" ELSE "prog_deinit"]
    /\ UNCHANGED restVars

\* render_thread_deinit, entry: nothing to do unless render_thread_inited;
\* the render thread is shut down when it has not been joined yet.
render_thread_deinit_begin ==
    /\ m_pc = "prog_deinit"
    /\ prog' = [prog EXCEPT
                  !.m_pc = IF ~render_thread_inited THEN "done"
                           ELSE IF sems_inited_flag /\ render_thread # NULL
                                THEN "post_deinit_render"
                                ELSE "context_destroy"]
    /\ UNCHANGED restVars

\* render_thread_deinit: SEM_POST(deinit_render_sem).
render_thread_deinit_post ==
    /\ m_pc = "post_deinit_render"
    /\ prog' = [prog EXCEPT
                  !.sems = SEM_POST("deinit_render_sem"),
                  !.m_pc = "post_render_now"]
    /\ UNCHANGED restVars

\* The variant of render_thread_deinit that joins without its extra post of
\* render_now_sem.
render_thread_deinit_join_unposted(ok) ==
    /\ m_pc = "post_render_now"
    /\ prog' = [prog EXCEPT !.m_pc = IF ok THEN "join_deinit" ELSE "aborted"]
    /\ UNCHANGED restVars

\* render_thread_deinit: SDL_SemPost(render_now_sem); a failing post aborts.
render_thread_deinit_post_now(ok) ==
    /\ m_pc = "post_render_now"
    /\ prog' = IF ok
               THEN [prog EXCEPT
                       !.sems = SEM_POST("render_now_sem"),
                       !.m_pc = "join_deinit"]
               ELSE [prog EXCEPT !.m_pc = "aborted"]
    /\ UNCHANGED restVars

\* Where the main thread goes on after an SDL_WaitThread: render_thread_init
\* and app_thread_init return false; render_thread_deinit aborts when the
\* thread returned EXIT_FAILURE and destroys the context otherwise.
AfterJoin(render_status) ==
    IF m_pc = "join_deinit"
    THEN (IF render_status = "EXIT_FAILURE" THEN "aborted" ELSE "context_destroy")
    ELSE "prog_deinit"

\* The variant of SDL_WaitThread that returns without the render thread
\* having finished.
SDL_WaitThread_no_wait ==
    /\ m_pc \in {"join_init", "join_app", "join_deinit"}
    /\ prog' = [prog EXCEPT
                  !.render_thread = NULL,
                  !.joined = (r_pc = "exited"),
                  !.m_pc = AfterJoin(IF r_pc = "exited" THEN exit_code
                                     ELSE "EXIT_SUCCESS")]
    /\ UNCHANGED restVars

\* SDL_WaitThread(render_thread, ...) of render_thread_init,
\* app_thread_init and render_thread_deinit: returns once render_thread_func
\* has returned; render_thread becomes NULL.
SDL_WaitThread ==
    /\ m_pc \in {"join_init", "join_app", "join_deinit"}
    /\ r_pc = "exited"
    /\ prog' = [prog EXCEPT
                  !.render_thread = NULL,
                  !.joined = TRUE,
                  !.m_pc = AfterJoin(exit_code)]
    /\ UNCHANGED restVars

\* render_thread_deinit, the end: the context read from
\* main_thread_opengl_context is destroyed unless NULL, the pointer is set
\* to NULL and render_thread_inited is cleared.
render_thread_deinit_destroy ==
    /\ m_pc = "context_destroy"
    /\ prog' = [prog EXCEPT
                  !.gl_context = IF main_thread_opengl_context # NULL
                                 THEN "deleted" ELSE @,
                  !.ctx_ops = IF main_thread_opengl_context # NULL
                              THEN ContextOp(@, "main", "delete") ELSE @,
                  !.main_thread_opengl_context = NULL,
                  !.render_thread_inited = FALSE,
                  !.m_pc = "done"]
    /\ UNCHANGED restVars

\* -------------------------------------------------------- render thread ---

\* render_thread_func up to SEM_POST(log_filename_sem): the thread name and
\* the log filename are set; when one fails QUIT_FAILURE is stored first.
render_thread_func_start(ok) ==
    /\ r_pc = "name_set"
    /\ prog' = IF ok
               THEN [prog EXCEPT
                       !.sems = SEM_POST("log_filename_sem"),
                       !.r_pc = "wait_start"]
               ELSE [prog EXCEPT
                       !.quit_status = "QUIT_FAILURE",
                       !.r_pc = "fail_log_filename"]
    /\ UNCHANGED restVars

\* SEM_POST(log_filename_sem) and return EXIT_FAILURE after the failure.
render_thread_func_fail_log ==
    /\ r_pc = "fail_log_filename"
    /\ prog' = [prog EXCEPT
                  !.sems = SEM_POST("log_filename_sem"),
                  !.exit_code = "EXIT_FAILURE",
                  !.r_pc = "exited"]
    /\ UNCHANGED restVars

\* SEM_WAIT(render_start_sem).
render_thread_func_wait_start ==
    /\ r_pc = "wait_start"
    /\ sems["render_start_sem"] > 0
    /\ prog' = [prog EXCEPT
                  !.sems = SEM_WAIT("render_start_sem"),
                  !.r_pc = "window"]
    /\ UNCHANGED restVars

\* The setup steps that touch nothing shared when they succeed:
\* prog_window_get, SDL_GL_SetSwapInterval, frames_create, render_init.
\* A failing step stores QUIT_FAILURE.
SetupAfter(step) ==
    CASE step = "window" -> "get_context"
      [] step = "swap_interval" -> "frames_create"
      [] step = "frames_create" -> "render_init"
      [] step = "render_init" -> "init_done"

render_thread_func_setup(ok) ==
    /\ r_pc \in {"window", "swap_interval", "frames_create", "render_init"}
    /\ prog' = IF ok
               THEN [prog EXCEPT !.r_pc = SetupAfter(@)]
               ELSE [prog EXCEPT
                       !.quit_status = "QUIT_FAILURE",
                       !.r_pc = "fail_setup"]
    /\ UNCHANGED restVars

\* The acquire load of main_thread_opengl_context; NULL is a failure.
render_thread_func_get_context ==
    /\ r_pc = "get_context"
    /\ prog' = IF main_thread_opengl_context = NULL
               THEN [prog EXCEPT
                       !.r_context = NULL,
                       !.quit_status = "QUIT_FAILURE",
                       !.r_pc = "fail_setup"]
               ELSE [prog EXCEPT
                       !.r_context = main_thread_opengl_context,
                       !.r_pc = "make_current"]
    /\ UNCHANGED restVars

\* opengl_context_make_current(context): the context becomes current in the
\* render thread, or SDL_GL_MakeCurrent fails and QUIT_FAILURE is stored.
render_thread_func_make_current(ok) ==
    /\ r_pc = "make_current"
    /\ prog' = IF ok
               THEN [prog EXCEPT
                       !.gl_current = @ \cup {"render"},
                       !.ctx_ops = ContextOp(@, "render", "make_current"),
                       !.r_pc = "swap_interval"]
               ELSE [prog EXCEPT
                       !.ctx_ops = ContextOp(@, "render", "make_current"),
                       !.quit_status = "QUIT_FAILURE",
                       !.r_pc = "fail_setup"]
    /\ UNCHANGED restVars

\* The variant of the failed setup that returns EXIT_FAILURE without
\* posting init_app_sem.
render_thread_func_fail_unposted ==
    /\ r_pc = "fail_setup"
    /\ prog' = [prog EXCEPT
                  !.exit_code = "EXIT_FAILURE",
                  !.r_pc = "exited"]
    /\ UNCHANGED restVars

\* SEM_POST(init_app_sem) and return EXIT_FAILURE after a failed setup step.
render_thread_func_fail_setup ==
    /\ r_pc = "fail_setup"
    /\ prog' = [prog EXCEPT
                  !.sems = SEM_POST("init_app_sem"),
                  !.init_posts = @ + 1,
                  !.exit_code = "EXIT_FAILURE",
                  !.r_pc = "exited"]
    /\ UNCHANGED restVars

\* SEM_POST(init_app_sem) after the setup succeeded.
render_thread_func_init_done ==
    /\ r_pc = "init_done"
    /\ prog' = [prog EXCEPT
                  !.sems = SEM_POST("init_app_sem"),
                  !.init_posts = @ + 1,
                  !.r_pc = "render_now"]
    /\ UNCHANGED restVars

\* The render loop, SDL_SemWait(render_now_sem): the wait returns, or fails
\* and the loop is left with QUIT_FAILURE and EXIT_FAILURE.
render_loop_wait(ok) ==
    /\ r_pc = "render_now"
    /\ ok => sems["render_now_sem"] > 0
    /\ prog' = IF ok
               THEN [prog EXCEPT
                       !.sems = SEM_WAIT("render_now_sem"),
                       !.r_pc = "loop_quit_status"]
               ELSE [prog EXCEPT
                       !.quit_status = "QUIT_FAILURE",
                       !.exit_code = "EXIT_FAILURE",
                       !.r_pc = "wait_deinit"]
    /\ UNCHANGED restVars

\* The render loop, the read of quit_status: anything but QUIT_NOT leaves
\* the loop.
render_loop_quit_status ==
    /\ r_pc = "loop_quit_status"
    /\ prog' = [prog EXCEPT
                  !.r_pc = IF quit_status # "QUIT_NOT"
                           THEN "wait_deinit" ELSE "draw_latest"]
    /\ UNCHANGED restVars

\* The render loop, frames_draw_latest and the pacing sleep: the call uses
\* the context; FRAMES_STATUS_ERROR leaves the loop with QUIT_FAILURE and
\* EXIT_FAILURE.
render_loop_draw(ok) ==
    /\ r_pc = "draw_latest"
    /\ prog' = IF ok
               THEN [prog EXCEPT
                       !.ctx_ops = ContextOp(@, "render", "draw"),
                       !.sealed_undrawn = FALSE,
                       !.r_pc = "render_now"]
               ELSE [prog EXCEPT
                       !.ctx_ops = ContextOp(@, "render", "draw"),
                       !.sealed_undrawn = FALSE,
                       !.quit_status = "QUIT_FAILURE",
                       !.exit_code = "EXIT_FAILURE",
                       !.r_pc = "wait_deinit"]
    /\ UNCHANGED restVars

\* The render thread going on to its teardown without the wait on
\* deinit_render_sem.
render_thread_func_teardown_ungated ==
    /\ r_pc = "wait_deinit"
    /\ prog' = [prog EXCEPT !.r_pc = "teardown"]
    /\ UNCHANGED restVars

\* SEM_WAIT(deinit_render_sem) after the loop.
render_thread_func_wait_deinit ==
    /\ r_pc = "wait_deinit"
    /\ sems["deinit_render_sem"] > 0
    /\ prog' = [prog EXCEPT
                  !.sems = SEM_WAIT("deinit_render_sem"),
                  !.r_pc = "teardown"]
    /\ UNCHANGED restVars

\* frames_destroy, render_deinit and opengl_context_make_current(NULL): no
\* context is current in the render thread any more.
render_thread_func_teardown ==
    /\ r_pc = "teardown"
    /\ prog' = [prog EXCEPT
                  !.gl_current = @ \ {"render"},
                  !.ctx_ops = ContextOp(@, "render", "release"),
                  !.r_pc = "write_back"]
    /\ UNCHANGED restVars

\* The release store of context back into main_thread_opengl_context, and
\* the return of exit_code.
render_thread_func_return ==
    /\ r_pc = "write_back"
    /\ prog' = [prog EXCEPT
                  !.main_thread_opengl_context = r_context,
                  !.r_pc = "exited"]
    /\ UNCHANGED restVars

NextH ==
    \/ \E ok \in BOOLEAN : sems_init(ok)
    \/ \E ok \in BOOLEAN : opengl_context_create_begin(ok)
    \/ \E ok \in BOOLEAN : opengl_context_create_end(ok)
    \/ render_thread_init_publish
    \/ render_thread_init_post
    \/ \E ok \in BOOLEAN : SDL_CreateThread(ok)
    \/ render_thread_init_wait
    \/ render_thread_init_check
    \/ app_thread_init_wait
    \/ \E ok \in BOOLEAN : app_thread_init_check(ok)
    \/ \E outcome \in {"quit", "error", "tick"} : prog_update_tick(outcome)
    \/ prog_update_sem_value
    \/ prog_update_sem_post
    \/ \E quit_app \in BOOLEAN : prog_update_quit_app(quit_app)
    \/ prog_update_return
    \/ render_thread_deinit_begin
    \/ render_thread_deinit_post
    \/ \E ok \in BOOLEAN : render_thread_deinit_post_now(ok)
    \/ SDL_WaitThread
    \/ render_thread_deinit_destroy
    \/ \E ok \in BOOLEAN : render_thread_func_start(ok)
    \/ render_thread_func_fail_log
    \/ render_thread_func_wait_start
    \/ \E ok \in BOOLEAN : render_thread_func_setup(ok)
    \/ render_thread_func_get_context
    \/ \E ok \in BOOLEAN : render_thread_func_make_current(ok)
    \/ render_thread_func_fail_setup
    \/ render_thread_func_init_done
    \/ \E ok \in BOOLEAN : render_loop_wait(ok)
    \/ render_loop_quit_status
    \/ \E ok \in BOOLEAN : render_loop_draw(ok)
    \/ render_thread_func_wait_deinit
    \/ render_thread_func_teardown
    \/ render_thread_func_return

SpecH == Init /\ [][NextH]_vars

\* ------------------------------------------- the two threads scheduled ---

\* A step of the main thread.
main_thread_step ==
    \/ \E ok \in BOOLEAN : sems_init(ok)
    \/ \E ok \in BOOLEAN : opengl_context_create_begin(ok)
    \/ \E ok \in BOOLEAN : opengl_context_create_end(ok)
    \/ render_thread_init_publish
    \/ render_thread_init_post
    \/ \E ok \in BOOLEAN : SDL_CreateThread(ok)
    \/ render_thread_init_wait
    \/ render_thread_init_check
    \/ app_thread_init_wait
    \/ \E ok \in BOOLEAN : app_thread_init_check(ok)
    \/ \E outcome \in {"quit", "error", "tick"} : prog_update_tick(outcome)
    \/ prog_update_sem_value
    \/ prog_update_sem_post
    \/ \E quit_app \in BOOLEAN : prog_update_quit_app(quit_app)
    \/ prog_update_return
    \/ render_thread_deinit_begin
    \/ render_thread_deinit_post
    \/ \E ok \in BOOLEAN : render_thread_deinit_post_now(ok)
    \/ SDL_WaitThread
    \/ render_thread_deinit_destroy

\* A step of the render thread other than a failing SDL_SemWait: a thread
\* blocked in SDL_SemWait is not owed an error return.
render_thread_step ==
    \/ \E ok \in BOOLEAN : render_thread_func_start(ok)
    \/ render_thread_func_fail_log
    \/ render_thread_func_wait_start
    \/ \E ok \in BOOLEAN : render_thread_func_setup(ok)
    \/ render_thread_func_get_context
    \/ \E ok \in BOOLEAN : render_thread_func_make_current(ok)
    \/ render_thread_func_fail_setup
    \/ render_thread_func_init_done
    \/ render_loop_wait(TRUE)
    \/ render_loop_quit_status
    \/ \E ok \in BOOLEAN : render_loop_draw(ok)
    \/ render_thread_func_wait_deinit
    \/ render_thread_func_teardown
    \/ render_thread_func_return

\* Each thread that can take a step goes on to take one.  A semaphore a
\* thread waits on is waited on by that thread alone, so a wait that can
\* return stays able to return until it does.
SpecHFair ==
    /\ Init
    /\ [][NextH]_vars
    /\ WF_vars(main_thread_step)
    /\ WF_vars(render_thread_step)


\* ================================================ properties of Spec ======

Count(seq, e) == Cardinality({ i \in DOMAIN seq : seq[i] = e })

IsPrefix(s, t) ==
    /\ Len(s) <= Len(t)
    /\ \A i \in DOMAIN s : s[i] = t[i]

Ids(records) == [i \in DOMAIN records |-> records[i].id]

IsCallback(e) == e[1] # 0

\* The callbacks run for frame f, without the flushes.
Callbacks(f) == SelectSeq(log[f], IsCallback)

Flushes(f) == Count(log[f], << 0, "flush" >>)

Rank(kind) ==
    CASE kind = "update" -> 1
      [] kind = "draw" -> 2
      [] kind = "destroy" -> 3
      [] OTHER -> 0

\* What the claims expect a completely processed frame to have received:
\* per command, in order, update, draw (for a drawn frame), destroy, each
\* where the command has the callback.
RECURSIVE Expected(_, _, _)
Expected(funcs, i, drawn) ==
    IF i > Len(funcs)
    THEN <<>>
    ELSE (IF funcs[i].update THEN << << i, "update" >> >> ELSE <<>>)
         \o (IF drawn /\ funcs[i].draw THEN << << i, "draw" >> >> ELSE <<>>)
         \o (IF funcs[i].destroy THEN << << i, "destroy" >> >> ELSE <<>>)
         \o Expected(funcs, i + 1, drawn)

LastSealed == sealed[Len(sealed)]

\* ---- C2
\* The first frames_draw_latest call has returned, no callback failed, and
\* the producer, having completed its N >= 1 ticks before the call, took no
\* step during it.
C2_AfterSingleCall ==
    /\ calls = 1
    /\ cpc = "idle"
    /\ quiet
    /\ ~failed
    /\ ppc \in {"idle", "stopped"}
    /\ nStarted = Len(sealed)
    /\ Len(sealed) >= 1

\* C2: N ticks completed before the consumer's first call; that single
\* frames_draw_latest call, no callback failing, has run update once for
\* every command of all N frames, draw exactly for the commands of the N-th
\* frame, destroy once for every command of all N frames, and leaves
\* latest_frame null and the FIFO empty.
C2_NoLostUpdates ==
    C2_AfterSingleCall =>
        /\ \A i \in DOMAIN sealed :
              Callbacks(sealed[i]) =
                 Expected(built[sealed[i]], 1, i = Len(sealed))
        /\ latest_frame = NULL
        /\ frame_queues = <<>>

C2_Witness ==
    /\ C2_AfterSingleCall
    /\ Len(sealed) >= 2
    /\ status = "SUCCESS"
    /\ \E i \in DOMAIN sealed : Callbacks(sealed[i]) # <<>>

\* ---- C3
\* C3: for every command, each of update, draw and destroy has run at most
\* once, update never after draw or destroy, draw never after destroy.
C3_OnceInOrder ==
    \A f \in FrameId : \A i, j \in DOMAIN log[f] :
        (i < j /\ IsCallback(log[f][i]) /\ log[f][i][1] = log[f][j][1])
            => Rank(log[f][i][2]) < Rank(log[f][j][2])

C3_Witness ==
    /\ cpc = "destroyed"
    /\ \E f \in FrameId :
          /\ Count(log[f], << 1, "update" >>) = 1
          /\ Count(log[f], << 1, "draw" >>) = 1
          /\ Count(log[f], << 1, "destroy" >>) = 1

\* ---- C4
\* C4: once frames_destroy has returned (no update having failed inside
\* frames_destroy itself), every command of every sealed frame has had its
\* destroy callback run exactly once, also in a frame in which an update or
\* draw failed in an earlier frames_draw_latest call.
C4_AllDestroyedAtTeardown ==
    (/\ cpc = "destroyed"
     /\ \A i \in DOMAIN dequeued :
           dequeued[i].by = "frames_destroy" => dequeued[i].ok) =>
        \A i \in DOMAIN sealed : \A c \in DOMAIN built[sealed[i]] :
            built[sealed[i]][c].destroy
               => Count(log[sealed[i]], << c, "destroy" >>) = 1

\* ---- C5
UpdatedAndDestroyed(f) ==
    \A c \in DOMAIN built[f] :
        /\ built[f][c].update => Count(log[f], << c, "update" >>) = 1
        /\ built[f][c].destroy => Count(log[f], << c, "destroy" >>) = 1

\* C5: when no callback fails, the consumer dequeues the sealed frames each
\* once and in the order they were sealed, every command of a frame it has
\* done with got update and destroy, drawn or not, and after the final
\* frames_destroy every sealed frame has been dequeued.
C5_DrainedInSealOrder ==
    ~failed =>
        /\ IsPrefix(Ids(dequeued), sealed)
        /\ \A f \in freed : UpdatedAndDestroyed(f)
        /\ cpc = "destroyed" =>
              /\ Ids(dequeued) = sealed
              /\ \A i \in DOMAIN sealed : sealed[i] \in freed

C5_Witness ==
    /\ cpc = "destroyed"
    /\ ~failed
    /\ Len(sealed) >= 2
    /\ \E i \in DOMAIN dequeued :
          /\ ~dequeued[i].latest
          /\ dequeued[i].by = "frames_draw_latest"
          /\ Callbacks(dequeued[i].id) # <<>>

\* ---- C6
\* C6: while the pipeline exists, latest_frame is null or refers to the most
\* recently sealed frame (the one frames_end is about to store counts as not
\* yet sealed), and never to a frame the consumer has dequeued, processed
\* and freed.  Stated for the runs in which no callback fails.
C6_LatestNotYetConsumed ==
    (cpc # "destroyed" /\ ~failed /\ latest_frame # NULL) =>
        /\ latestId \notin freed
        /\ (latestId = LastSealed \/ ppc = "publish")

\* ---- C7
\* C7: while the pipeline exists, what latest_frame points to, when it is
\* not null, is a frame whose ended flag is true, and so is every frame in
\* the FIFO.  (Where the address holds no frame at all the flag is not
\* looked at.)  Stated for the runs in which no callback fails.
C7_LatestEnded ==
    /\ (cpc # "destroyed" /\ ~failed /\ latest_frame # NULL) =>
          (heap[latest_frame].id = 0 \/ heap[latest_frame].ended)
    /\ \A i \in DOMAIN frame_queues : heap[frame_queues[i]].ended

\* ---- C8
Rendered(f) == \E i \in DOMAIN dequeued : dequeued[i].id = f /\ dequeued[i].latest

\* C8: every store of a frame into latest_frame stores a frame sealed later
\* than the one it held last and not rendered already; and the consumer
\* clears latest_frame only while it refers to the frame the call captured,
\* never after the producer has stored a newer one.  Stated for the runs in
\* which no callback fails.
C8_MonotonicAndGuarded ==
    [][ ~failed =>
          /\ (latest_frame' # NULL /\ ppc = "publish" /\ ppc' = "idle")
                => (latestId' > latestId /\ ~Rendered(latestId'))
          /\ (latest_frame # NULL /\ latest_frame' = NULL)
                => latestId = c_latestId ]_vars

\* ---- C9
\* C9, as what a finite run can refute: a frame published while a
\* frames_draw_latest call was running, the last the producer seals, is not
\* dequeued as a frame to discard (update, destroy, flush, free).  A frame
\* is dequeued once, so a discarded frame is never drawn or presented.
C9_NewerFrameNotDiscarded ==
    (ppc = "stopped" /\ ~failed /\ Len(sealed) >= 1 /\ LastSealed \in midDrain)
        => ~(\E i \in DOMAIN dequeued :
                dequeued[i].id = LastSealed /\ ~dequeued[i].latest)

\* ---- C10
DrawsOf(f) == { i \in DOMAIN log[f] : log[f][i][2] = "draw" }

C11_PresentIffCapturedProcessed ==
    [][ /\ presents' # presents =>
              /\ presents' = presents + 1
              /\ cpc = "dequeue" /\ cpc' = "idle"
              /\ status' = "SUCCESS"
        /\ (cpc = "dequeue" /\ cpc' = "idle" /\ ~failed') =>
              /\ status' \in {"SUCCESS", "NO_END"}
              /\ status' = "SUCCESS" =>
                    (Rendered(c_latestId) /\ c_latestId \in freed) ]_vars


\* ---- C12
\* A step that is the entry of a frames_draw_latest call.
CallEntry ==
    /\ cpc = "idle"
    /\ quiet'
    /\ status' \notin {"DESTROYED", "DESTROY_ERROR"}
    /\ (~quiet \/ calls' # calls \/ status' # status \/ cpc' # cpc)

\* C12: a frames_draw_latest call that finds latest_frame null returns the
\* no-new-frame status at once and leaves the FIFO (empty or not), the
\* frames, latest_frame, the callbacks and flushes run, the frames dequeued
\* and freed and the count of presents as they were.
C12_NullLatestChangesNothing ==
    [][ (CallEntry /\ latest_frame = NULL) =>
           /\ status' = "NO_FRAMES"
           /\ cpc' = "idle"
           /\ UNCHANGED << heap, frame_queues, next_latest_frame, latest_frame,
                           log, dequeued, freed, presents >> ]_vars

\* The call returned no-new-frame while a sealed frame, enqueued and not
\* yet published, was in the FIFO.
C12_Witness ==
    /\ status = "NO_FRAMES"
    /\ cpc = "idle"
    /\ quiet
    /\ latest_frame = NULL
    /\ ppc = "publish"
    /\ frame_queues # <<>>
    /\ dequeued = <<>>


\* ---- C13
\* C13: a frames_draw_latest call has returned presented or not-yet-ended
\* (it was entered with latest_frame not null), no callback has failed in
\* the run, the producer has taken no step, so none of frames_end, since that call
\* began, and the consumer calls frames_draw_latest again: this second call
\* returns no-new-frame.
C13_SecondCallNoNewFrame ==
    [][ (CallEntry /\ quiet /\ ~failed /\ status \in {"SUCCESS", "NO_END"}) =>
           status' = "NO_FRAMES" ]_vars


\* =============================================== properties of SpecE ======

\* ---- C14
\* C14: the step in which an update or draw callback returns false ends the
\* frames_draw_latest call with the error status: the last thing run for the
\* frame is that update or draw (no destroy, no flush after it), nothing is
\* run for any other frame, nothing is presented, and the frames that were
\* behind the failing one in the FIFO are the FIFO afterwards, in the same
\* order, each with its commands and its ended flag as before.
C14_AbortLeavesQueuedFrames ==
    [][ (cpc = "dequeue" /\ status' = "ERROR") =>
           LET f == heap[Head(frame_queues)].id
           IN /\ cpc' = "idle"
              /\ presents' = presents
              /\ frame_queues' = Tail(frame_queues)
              /\ \A i \in DOMAIN frame_queues' :
                    heap'[frame_queues'[i]] = heap[frame_queues'[i]]
              /\ IsPrefix(log[f], log'[f])
              /\ Len(log'[f]) > Len(log[f])
              /\ log'[f][Len(log'[f])][2] \in {"update", "draw"}
              /\ \A g \in FrameId \ {f} : log'[g] = log[g] ]_vars

\* The update of the first command of the first frame failed: the second
\* command of that frame was not touched and the second frame is in the
\* FIFO with its two commands.
C14_Witness ==
    /\ status = "ERROR"
    /\ cpc = "idle"
    /\ log[1] = << << 1, "update" >> >>
    /\ built[1][2].update
    /\ frame_queues = << 2 >>
    /\ Len(heap[2].commands) = 2
    /\ log[2] = <<>>


\* ---- C15
\* C15: a draw callback failed while frames_draw_latest was processing a
\* frame (the last thing run for the frame is a draw), that call returned
\* the error status, no other callback has failed, and a later
\* frames_draw_latest call has returned: then the frame has been processed to its end, every
\* command of it updated, drawn and destroyed once, and it has been
\* presented.
C15_RetryCompletesFrame ==
    \A i \in DOMAIN dequeued :
        LET f == dequeued[i].id
        IN (/\ dequeued[i].by = "frames_draw_latest"
            /\ ~dequeued[i].ok
            /\ \A j \in DOMAIN dequeued \ {i} : dequeued[j].ok
            /\ log[f][Len(log[f])][2] = "draw"
            /\ cpc = "idle"
            /\ status \in {"SUCCESS", "NO_END", "NO_FRAMES"}) =>
               /\ Callbacks(f) = Expected(built[f], 1, TRUE)
               /\ presents >= 1


C17_FailureStep ==
    /\ ppc \in {"idle", "building"}
    /\ ppc' = "stopped"

C17_NoPartialFramePublished ==
    /\ [][ C17_FailureStep =>
              /\ UNCHANGED << frame_queues, latest_frame, latestId >>
              /\ \A i \in DOMAIN frame_queues :
                    heap'[frame_queues[i]] = heap[frame_queues[i]] ]_vars
    /\ [](ppc = "stopped" =>
             \A f \in 1..nStarted :
                 (\A i \in DOMAIN sealed : sealed[i] # f) =>
                     /\ latestId # f
                     /\ \A i \in DOMAIN dequeued : dequeued[i].id # f)

\* frames_end has failed for a frame that holds a command, while an earlier
\* frame is published and in the FIFO.
C17_Witness ==
    /\ ppc = "stopped"
    /\ nStarted = Len(sealed) + 1
    /\ heap[next_latest_frame].id = 0
    /\ built[nStarted] # <<>>
    /\ frame_queues # <<>>
    /\ latest_frame # NULL
    /\ latestId = LastSealed


\* =============================================== properties of SpecQ ======

\* The value of a call that has linked its node and not yet returned.
Linked ==
    IF \E t \in Producers : q_pc[t] = "cas_tail" /\ q_local[t].enqueue_next = "true"
    THEN << q_local[CHOOSE t \in Producers : q_pc[t] = "cas_tail"].value >>
    ELSE <<>>

QueueIdle ==
    /\ \A t \in Producers : q_pc[t] = "idle"
    /\ q_cpc = "idle"

\* ---- C1
\* C1: one producer, one consumer, every interleaving of their atomic steps:
\* the values conqueue_dequeue has returned are a prefix of the values whose
\* conqueue_enqueue returned true (or has linked its node and is about to),
\* in the same order; and when both threads are between calls and the queue
\* is empty, every such value has been returned.
C1_FifoPrefix ==
    /\ IsPrefix(q_out, q_accepted \o Linked)
    /\ (\A t \in Producers : q_pc[t] = "idle") => IsPrefix(q_out, q_accepted)
    /\ (QueueIdle /\ q_node[q_dequeue].next = NULL) => q_out = q_accepted

\* The consumer has returned the third value before the enqueue call that
\* linked it has returned, on nodes the allocator had handed out before.
C1_Witness ==
    /\ Len(q_accepted) = 2
    /\ Len(q_out) = 3
    /\ \E t \in Producers : q_pc[t] = "cas_tail"

\* ---- C19
InCall == cpc \in {"dequeue", "cas", "free"}

\* C19: every frames_draw_latest call returns (the producer seals at most
\* MaxFrames frames in all): a call that has entered its drain loop
\* eventually is back at the caller; inside a call a step of the call can
\* always be taken; and with the FIFO found empty the call's next step is
\* its return.
C19_DrawLatestTerminates ==
    /\ InCall ~> (cpc = "idle")
    /\ [](InCall => ENABLED drain_step)
    /\ [][ (cpc = "dequeue" /\ frame_queues = <<>> /\ cpc' # cpc)
              => cpc' = "idle" ]_vars

\* A call has returned after draining a frame that was sealed while the
\* call was running.
C19_Witness ==
    /\ cpc = "idle"
    /\ status \in {"SUCCESS", "NO_END"}
    /\ calls = 1
    /\ midDrain # {}
    /\ \E f \in midDrain : f \in freed

FailedValues ==
    { k \in 1..q_calls :
         /\ \A i \in DOMAIN q_accepted : q_accepted[i] # k
         /\ \A t \in Producers : q_local[t].value # k }

\* C25: a conqueue_enqueue call whose mem_malloc fails returns false and
\* leaves the queue as it was: no node is written or linked and the tail
\* pointer does not move; and conqueue_dequeue never returns the value of
\* such a call, the values it does return coming out in the order of the
\* calls that were not refused.
C25_FailedEnqueueChangesNothing ==
    /\ [][(q_calls' = q_calls + 1 /\ q_pc' = q_pc)
            => /\ q_node' = q_node
               /\ q_enqueue' = q_enqueue
               /\ q_dequeue' = q_dequeue
               /\ q_accepted' = q_accepted]_vars
    /\ [](/\ \A i \in DOMAIN q_out : q_out[i] \notin FailedValues
          /\ \A n \in NodeAddr : q_node[n].live => q_node[n].value \notin FailedValues
          /\ \A i, j \in DOMAIN q_out : i < j => q_out[i] < q_out[j])

\* One call was refused, and values enqueued before it and after it have
\* been dequeued.
C25_Witness ==
    /\ FailedValues = {2}
    /\ q_out = << 1, 3 >>


\* ================================================ properties of SpecH =====

\* ---- C20
\* C20: the context is current in at most one thread in every reachable
\* state, and every call the main thread makes on the context once it has
\* stored it in main_thread_opengl_context for the render thread (its
\* deletion included) is made after an SDL_WaitThread on the render thread
\* has returned.
C20_OneThreadAndHandsOff ==
    /\ Cardinality(gl_current) <= 1
    /\ \A o \in ctx_ops : (o.thread = "main" /\ o.published) => o.joined

\* The render thread made the context current, left its loop, released the
\* context and was joined, and the main thread then deleted the context.
C20_Witness ==
    /\ [thread |-> "render", op |-> "make_current", published |-> TRUE,
         joined |-> FALSE] \in ctx_ops
    /\ [thread |-> "render", op |-> "draw", published |-> TRUE,
         joined |-> FALSE] \in ctx_ops
    /\ [thread |-> "main", op |-> "delete", published |-> TRUE,
         joined |-> TRUE] \in ctx_ops
    /\ gl_context = "deleted"
    /\ gl_current = {}

\* ---- C24
\* C24: when the main thread destroys the context it had stored for the
\* render thread, the render thread has made no context current in itself,
\* has written the pointer back and has returned and been joined; also
\* when a setup step of the render thread failed after the context was
\* made current.
C24_DestroyAfterRelease ==
    [][(published /\ gl_context = "alive" /\ gl_context' = "deleted")
         => /\ joined
            /\ r_pc = "exited"
            /\ "render" \notin gl_current]_vars


\* ============================================ properties of SpecHFair =====

\* ---- C21
\* C21: once a quit status is set and the main thread, in
\* render_thread_deinit, has posted deinit_render_sem and render_now_sem
\* and waits in SDL_WaitThread, the render thread leaves its loop, passes
\* SEM_WAIT(deinit_render_sem) and returns, and the SDL_WaitThread returns,
\* wherever in the render loop the render thread was.
C21_ShutdownJoinReturns ==
    (m_pc = "join_deinit" /\ quit_status # "QUIT_NOT")
        ~> (r_pc = "exited" /\ joined)

\* The main thread waits in the SDL_WaitThread of render_thread_deinit with
\* the quit status set while the render thread is inside frames_draw_latest.
C21_Witness ==
    /\ m_pc = "join_deinit"
    /\ quit_status # "QUIT_NOT"
    /\ r_pc = "draw_latest"

\* ---- C22
\* C22: whatever leads the main thread into prog_deinit once the render
\* thread has been started, prog_deinit comes to its end: the render thread
\* returns and the SDL_WaitThread on it returns, the main thread never
\* staying in the join while the render thread waits on a semaphore.
C22_DeinitTerminates ==
    (m_pc = "prog_deinit" /\ r_pc # "not_created")
        ~> (m_pc \in {"done", "aborted"})

\* ---- C23
\* The render thread is in its setup, between SEM_WAIT(render_start_sem)
\* and the SEM_POST(init_app_sem) of the path it takes.
InSetup ==
    r_pc \in {"window", "get_context", "make_current", "swap_interval",
              "frames_create", "render_init", "init_done", "fail_setup"}

\* The render thread is in its render loop or in the teardown after it.
AfterSetup ==
    r_pc \in {"render_now", "loop_quit_status", "draw_latest", "wait_deinit",
              "teardown", "write_back"}

\* The render thread returned from a failed setup step: it has returned
\* without having waited on deinit_render_sem.
SetupFailed ==
    /\ init_posts = 1
    /\ r_pc = "exited"
    /\ [thread |-> "render", op |-> "release", published |-> TRUE,
         joined |-> FALSE] \notin ctx_ops

\* C23: on every path of the setup after SEM_WAIT(render_start_sem) the
\* render thread posts init_app_sem exactly once, after storing
\* QUIT_FAILURE when a step failed; so the main thread's
\* SEM_WAIT(init_app_sem) returns, and the quit_status it reads next is
\* QUIT_FAILURE when the setup failed.
C23_InitDonePostedOnce ==
    /\ [](/\ init_posts <= 1
          /\ InSetup => init_posts = 0
          /\ AfterSetup => init_posts = 1)
    /\ [][(InSetup /\ ~InSetup') => (init_posts = 0 /\ init_posts' = 1)]_vars
    /\ [][(init_posts' # init_posts /\ r_pc = "fail_setup")
            => quit_status = "QUIT_FAILURE" /\ quit_status' = "QUIT_FAILURE"]_vars
    /\ []((m_pc = "check_init_app" /\ SetupFailed) => quit_status = "QUIT_FAILURE")
    /\ (m_pc = "wait_init_app") ~> (m_pc = "check_init_app")

\* A setup step failed after the context was made current, the render
\* thread posted init_app_sem and returned, and the main thread's wait on
\* init_app_sem has returned.
C23_Witness ==
    /\ m_pc = "check_init_app"
    /\ SetupFailed
    /\ "render" \in gl_current
    /\ init_posts = 1

\* ----------------------------------------------------- properties of SpecM
\* The queue holds nothing more: the head's next is NULL.
QueueEmpty == q_node[q_dequeue].next = NULL

\* Thread t's next step reads or writes enqueue->next.
DerefsEnqueue(t) == q_pc[t] \in {"load_next", "cas_next"} /\ q_pc'[t] # q_pc[t]

AcceptedOnce ==
    /\ \A i, j \in 1..Len(q_out) : q_out[i] = q_out[j] => i = j
    /\ ((\A t \in LogProducers : q_pc[t] = "idle") /\ q_cpc = "idle" /\ QueueEmpty)
          => \A k \in 1..Len(q_accepted) :
                \E i \in 1..Len(q_out) : q_out[i] = q_accepted[k]

ProducerOrder ==
    \A i, j \in 1..Len(q_out) :
        (i < j /\ q_callers[q_out[i]] = q_callers[q_out[j]]) => q_out[i] < q_out[j]

NoFreedNodeDeref ==
    [][\A t \in LogProducers :
          DerefsEnqueue(t) => q_node[q_local[t].enqueue].live]_vars

EnqueueTerminates ==
    \A t \in LogProducers : (q_pc[t] # "idle") ~> (q_pc[t] = "idle")

\* ---- C26
\* C26: two producers and one consumer, every interleaving: each value whose
\* conqueue_enqueue returned true is returned by conqueue_dequeue exactly
\* once (never twice, and all of them once the queue is drained with no call
\* in progress); the values of one producer come out in the order that
\* producer enqueued them; a producer never reads or writes enqueue->next of
\* a node the consumer has freed; and, with every thread taking steps, every
\* conqueue_enqueue call returns.
C26_MultiProducer ==
    /\ [](AcceptedOnce /\ ProducerOrder)
    /\ NoFreedNodeDeref
    /\ EnqueueTerminates

\* ----------------------------------------------------- properties of SpecL
\* ---- C27
\* C27: when a log_all_output_dequeue call with a finite allotted time has
\* returned true, the texts it took out of the queue are exactly the texts
\* it wrote, in the same order: no text leaves the queue unwritten.
C27_TakenIsWritten ==
    (lo_pc = "idle" /\ lo_ret = "true" /\ lo_allotted = "finite")
        => lo_taken = lo_written

\* ---- C28
\* The commands still in the list of frame f: those queue_dequeue has not
\* returned to the consumer (none once the frame and its list are freed).
Remaining(f) ==
    IF \E a \in Addr : heap[a].id = f
    THEN heap[CHOOSE a \in Addr : heap[a].id = f].commands
    ELSE <<>>

\* The callbacks run for frame f belong to its commands as enqueued, each
\* to a slot the command has, command after command in enqueue order.
InEnqueueOrder(f) ==
    LET ran == Callbacks(f)
    IN /\ \A p \in DOMAIN ran :
             /\ ran[p][1] \in 1..Len(built[f])
             /\ built[f][ran[p][1]][ran[p][2]]
       /\ \A p, q \in DOMAIN ran : p < q => ran[p][1] <= ran[q][1]

\* C28: for every frame a frames_draw_latest call has dequeued, the commands
\* the call took from the frame's list and processed are all the commands
\* frames_enqueue_command put there between the frame's frames_start and
\* frames_end, in that order: none is left behind, and the callbacks run are
\* those of these commands, command after command.
C28_ProcessedIsEnqueued ==
    \A i \in DOMAIN dequeued :
        dequeued[i].by = "frames_draw_latest" =>
            /\ Remaining(dequeued[i].id) = <<>>
            /\ InEnqueueOrder(dequeued[i].id)

\* The same for the frames whose callbacks all succeeded: every command was
\* taken and received, in order, each callback it has.
ProcessedIsEnqueuedIfNoFailure ==
    \A i \in DOMAIN dequeued :
        /\ dequeued[i].ok => /\ Remaining(dequeued[i].id) = <<>>
                             /\ Callbacks(dequeued[i].id) =
                                   Expected(built[dequeued[i].id], 1, dequeued[i].latest)
        /\ InEnqueueOrder(dequeued[i].id)

\* ---- C29
\* The main thread's places in render_thread_init before it has posted
\* render_start_sem.
BeforeStartPosted ==
    {"sems_init", "context_create", "context_release", "publish", "post_start"}

\* C29: whenever the render thread executes its load of
\* main_thread_opengl_context, the main thread has already stored the
\* context it created there and has posted render_start_sem; the value
\* loaded is not NULL, it is that context, and the context still exists.
C29_ContextReadAfterPublish ==
    [][(r_pc = "get_context" /\ r_pc' # "get_context") =>
          /\ published
          /\ m_pc \notin BeforeStartPosted
          /\ main_thread_opengl_context = CONTEXT
          /\ gl_context = "alive"
          /\ r_context' = CONTEXT
          /\ r_context' # NULL
          /\ r_pc' = "make_current"]_vars

\* The render thread has loaded the context and is about to make it current.
C29_Witness ==
    /\ r_pc = "make_current"
    /\ r_context = CONTEXT
    /\ published

\* ---- C30
\* The main thread's places after render_thread_deinit has posted
\* deinit_render_sem: the update loop, and with it every frames_start,
\* frames_enqueue_command and frames_end call, lies behind it.
AfterDeinitPosted ==
    {"post_render_now", "join_deinit", "context_destroy", "done", "aborted"}

\* The render thread's places in its render loop, up to the wait on
\* deinit_render_sem.
InRenderLoop == {"render_now", "loop_quit_status", "draw_latest", "wait_deinit"}

\* C30: the render thread is at or past frames_destroy of its teardown only
\* when the main thread has left its update loop and posted
\* deinit_render_sem; and a tick of prog_update (frames_start, app_update,
\* frames_end) is only ever executed while the render thread is in its render
\* loop or waiting on deinit_render_sem, never once the teardown has begun.
C30_TeardownAfterLastTick ==
    /\ [](r_pc \in {"teardown", "write_back"} => m_pc \in AfterDeinitPosted)
    /\ [][(m_pc = "prog_update" /\ m_pc' # "prog_update")
            => (r_pc \in InRenderLoop /\ r_pc' \in InRenderLoop)]_vars
    /\ [][(r_pc = "wait_deinit" /\ r_pc' = "teardown")
            => m_pc \in AfterDeinitPosted]_vars

\* The render loop has drawn, the main thread has left its update loop with
\* a quit request and waits for the render thread, which is about to call
\* frames_destroy.
C30_Witness ==
    /\ r_pc = "teardown"
    /\ m_pc = "join_deinit"
    /\ quit_status = "QUIT_SUCCESS"
    /\ \E o \in ctx_ops : o.thread = "render" /\ o.op = "draw"

\* ------------------------------------------ properties of SpecQ, continued
\* ---- C31
\* The step is one of conqueue_enqueue (of some thread).
ProducerStep == q_pc' # q_pc \/ q_callers' # q_callers

\* C31 as claimed: the producer never reads or writes a field of a node it
\* has linked into the queue; the only node whose next field its loop reads
\* and compare-and-swaps is one it never linked, the sentinel of
\* conqueue_create.
C31_NoAccessAfterLink ==
    [][\A t \in Producers :
          DerefsEnqueue(t) => q_node[q_local[t].enqueue].value = NULL]_vars

\* C31 as amended: the producer does go back to the node it linked last, the
\* tail, in its next call, but only to that node's next field and only while
\* that field is NULL; it never touches the value field of a linked node,
\* and once a node has a successor no step of the producer reads or writes
\* it: from then on the node is the consumer's.
C31_OnlyTailNextAfterLink ==
    /\ [][\A t \in Producers :
            DerefsEnqueue(t) =>
               LET e == q_local[t].enqueue
               IN /\ q_node[e].live
                  /\ e = q_enqueue
                  /\ q_node[e].next = NULL
                  /\ q_node'[e].value = q_node[e].value
                  /\ q_node'[e].live]_vars
    /\ [][ProducerStep =>
            \A n \in NodeAddr :
               (q_node[n].live /\ q_node[n].next # NULL) => q_node'[n] = q_node[n]]_vars

\* The producer is about to compare-and-swap the next field of a node it
\* linked in an earlier call.
C31_Witness ==
    \E t \in Producers :
        /\ q_pc[t] = "cas_next"
        /\ q_node[q_local[t].enqueue].value # NULL
        /\ q_node[q_local[t].enqueue].live

\* ----------------------------------------------------- properties of SpecA
\* ---- C32
\* C32: debug build, two threads calling conqueue_dequeue and
\* conqueue_destroy in any interleaving.  The thread whose compare-and-swap
\* of consumer_set comes first is the one recorded in consumer, and once
\* recorded consumer never changes.  A thread gets past the assertion into
\* the body of its call only if it is the recorded consumer; any other
\* thread, also one whose first call overlaps the consumer's first call,
\* reaches the assertion only after consumer_set is 2 and consumer is
\* written, and fails it; and while the process runs such a thread does get
\* out of its wait.
C32_ConsumerLatched ==
    /\ [](\A t \in ConsumerThreads :
            /\ consumer \in {"unset", a_first}
            /\ consumer_set = 2 => consumer = a_first /\ consumer # "unset"
            /\ a_pc[t] \in {"assert", "body"} => consumer_set = 2
            /\ a_pc[t] = "body" => t = consumer
            /\ a_pc[t] = "failed" => (t # consumer /\ consumer # "unset" /\ a_aborted))
    /\ [][consumer # "unset" => consumer' = consumer]_vars
    /\ [][\A t \in ConsumerThreads :
            (a_pc[t] = "assert" /\ a_pc'[t] # "assert" /\ t # consumer)
               => a_pc'[t] = "failed"]_vars
    /\ \A t \in ConsumerThreads :
          (a_pc[t] = "spin") ~> (a_pc[t] # "spin" \/ ~ConsumerRunning)

\* The second thread made its first call while the first thread's first
\* call was still inside the check, waited, and has failed the assertion.
C32_Witness ==
    /\ a_pc["t2"] = "failed"
    /\ a_calls["t2"] = 1
    /\ a_calls["t1"] = 1
    /\ a_pc["t1"] = "spin"
    /\ consumer = "t1"

\* ------------------------------------------ properties of SpecM, continued
\* ---- C33
\* C33: the thread of the first conqueue_enqueue call is the producer, and a
\* call made by any other thread fails an assertion: no other thread is
\* ever inside the loop of conqueue_enqueue, and no value of another
\* thread's call is ever accepted.
C33_ProducerLatched ==
    /\ \A t \in LogProducers : q_pc[t] # "idle" => t = q_callers[1]
    /\ \A i \in DOMAIN q_accepted : q_callers[q_accepted[i]] = q_callers[1]

\* ----------------------------------------------------- properties of SpecS
\* ---- C34
\* C34: a frames_end or frames_enqueue_command call made between two ticks,
\* after the first tick, fails an assertion; no frame is ever in the FIFO
\* twice, and no command is ever appended to a frame that is already sealed.
C34_OutOfSequenceCaught ==
    /\ [](\A i, j \in DOMAIN frame_queues :
            frame_queues[i] = frame_queues[j] => i = j)
    /\ [][\A a \in Addr :
            (heap[a].ended /\ heap'[a].id = heap[a].id)
               => heap'[a].commands = heap[a].commands]_vars
    /\ [][(ppc = "idle" /\ nStarted >= 1 /\ ppc' = "idle")
            => UNCHANGED << heap, frame_queues, latest_frame >>]_vars

\* ----------------------------------------------------- properties of SpecD
\* ---- C35
\* The nodes reachable from the head by next, the head included.
RECURSIVE ChainFrom(_, _)
ChainFrom(d, seen) ==
    IF d = NULL \/ d \in seen
    THEN seen
    ELSE ChainFrom(q_node[d].next, seen \cup {d})

\* C35: one producer, one consumer.  Every node a step reads or writes is
\* live: the tail the producer goes through, the head and its successor the
\* consumer goes through.  A node is only ever freed by a step of the
\* consumer, and the node freed is live (freed once).  While the queue
\* exists queue->dequeue refers to a live node, and every live node is in
\* the chain from it or is the new node of the running enqueue call.  After
\* conqueue_destroy no node is live: each one allocated, the last sentinel
\* included, has been freed.
C35_NodeLifetimes ==
    /\ [][\A t \in Producers :
            DerefsEnqueue(t) => q_node[q_local[t].enqueue].live]_vars
    /\ [](q_cpc = "take" => (q_node[q_clocal.dequeue].live /\ q_node[q_clocal.next].live))
    /\ [][ProducerStep =>
            \A n \in NodeAddr : q_node[n].live => q_node'[n].live]_vars
    /\ [](QueueExists =>
            /\ q_node[q_dequeue].live
            /\ \A n \in NodeAddr :
                  q_node[n].live =>
                     \/ n \in ChainFrom(q_dequeue, {})
                     \/ \E t \in Producers : q_local[t].node = n)
    /\ [](~QueueExists => \A n \in NodeAddr : ~q_node[n].live)

\* conqueue_destroy has run on a queue that still held values: it drained
\* them and freed every node.
C35_Witness ==
    /\ q_cpc = "destroyed"
    /\ Len(q_accepted) = MaxEnq
    /\ Len(q_out) = MaxEnq
    /\ q_last = "NULL"
    /\ \A n \in NodeAddr : ~q_node[n].live

\* ------------------------------------------- properties of SpecHFair (2)
\* ---- C36
\* C36: no wake-up of the render thread is lost.  Once frames_end has
\* published a frame in prog_update, the render thread goes on to start a
\* frames_draw_latest call after it, unless a quit status has been stored
\* by then, which makes the render thread leave its loop instead.
C36_NoLostWakeup ==
    sealed_undrawn ~> (~sealed_undrawn \/ quit_status # "QUIT_NOT")

\* prog_update has sealed the frame of this tick and gone past its
\* conditional SDL_SemPost, and the render thread has already started its
\* frames_draw_latest call for that frame.
C36_Witness ==
    /\ m_pc = "quit_app"
    /\ ~sealed_undrawn
    /\ quit_status = "QUIT_NOT"
    /\ \E o \in ctx_ops : o.thread = "render" /\ o.op = "draw"

\* ---------------------------------------------- properties of SpecH (2)
\* ---- C37
\* C37: a stored QUIT_FAILURE stays.  No step of either thread replaces a
\* quit_status of QUIT_FAILURE by QUIT_SUCCESS or QUIT_NOT, and so the
\* prog_update that returns after a failure of the render thread finds
\* QUIT_FAILURE in its final read.
C37_FailureSticks ==
    [][quit_status = "QUIT_FAILURE" => quit_status' = "QUIT_FAILURE"]_vars

\* =============================================== properties of SpecP ======
\* The main thread is inside commands_empty or game_update on element e.
MainWorksOn(e) == fw_pc \in {"commands_empty", "game_update"} /\ fw_i = e

\* The present thread is between its read of shared_current, which gave
\* element e, and its clearing of in_use.
PresentHolds(e) ==
    present_pc \in {"set_in_use", "commands_flush"} /\ present_current = e

\* ---- C38
\* C38: the main thread never empties or fills the element the present
\* thread holds.
C38_NoSharedElement == \A e \in SharedIndex : ~(MainWorksOn(e) /\ PresentHolds(e))

\* ---- C39
\* C39: the search always ends on an index below lengthof(shared_data), so
\* the element the main thread empties, fills and publishes exists.
C39_IndexInBounds ==
    /\ fw_i \in 0 .. lengthof_shared_data
    /\ fw_pc \in {"commands_empty", "game_update", "set_current"}
          => fw_i < lengthof_shared_data
    /\ shared_current \in SharedIndex \cup {NullElement}

\* The search has skipped element 0 for being in use and element 1 for
\* being current, and has taken the last element.
C39_Witness ==
    /\ fw_pc = "commands_empty"
    /\ fw_i = lengthof_shared_data - 1
    /\ fw_current = 1
    /\ in_use[0] = 1

\* =========================================== properties of SpecGFair ======
\* ---- C40
\* C40: every wait of the main thread for the render thread returns.  The
\* SDL_WaitThread after the loop and the one of the game_init and Lua
\* failure paths, both reached with quit_now set, return; and
\* SEM_WAIT(sem_init_game) returns, also when the setup of the render
\* thread has failed.
C40_WaitsReturn ==
    /\ (gm_pc \in {"wait_thread", "wait_thread_init"}) ~> (gm_pc = "returned")
    /\ (gm_pc = "wait_init_game") ~> (gm_pc # "wait_init_game")
====
